---- MODULE Spec2Model ----
(***************************************************************************)
(* The ATA over Ethernet server.  Spec: the wire codec, the Header and its  *)
(* four argument variants (ATAArg, ConfigArg, MACMaskArg,                  *)
(* ReserveReleaseArg).  ATASpec: one call of the ATA handler, ServeATA, on *)
(* a backing store and a response sender that answer as they please.      *)
(* LBASpec: calculateLBA on a 6-byte address.  DiskSpec: calls of ServeATA *)
(* one after the other on a store that is a byte array.  ServerSpec: the   *)
(* Server, its Serve loop, its advertiser and the handlers of the command. *)
(*                                                                         *)
(* A []byte is a sequence of numbers in 0..255, indexed from 1 (Go's b[i]  *)
(* is b[i + 1] here).  A nil slice and an empty slice are both << >>:      *)
(* values are compared by content, as bytes.Equal compares them.           *)
(* A Marshal result is [err, b]; an Unmarshal result is [err, v], v being  *)
(* the receiver after the call on a zero value.  A run-time panic (slice   *)
(* bounds or index out of range, nil dereference) is the result Panic.     *)
(***************************************************************************)
EXTENDS Integers, Sequences, FiniteSets, TLC

VARIABLES codec, first, inB, inV, dec, enc, ret,
          pc, req, rs, warg, ops, sent, out,
          argLBA, arg48Bit, retLBA,
          disk, log,
          srv, loop, adv, wire, handled

\* The state of a codec run, and the state of a call of ServeATA.
codecVars == <<codec, first, inB, inV, dec, enc, ret>>

ataVars == <<pc, req, rs, warg, ops, sent, out>>

\* The arguments and the result of calculateLBA.
lbaVars == <<argLBA, arg48Bit, retLBA>>

\* The byte array behind the store with its cursor, and the calls of
\* ServeATA made on it so far.
diskVars == <<disk, log>>

\* The Server, the Serve loop, the advertiser, the frames written to the
\* packet connection and the requests handed to the Handler.
srvVars == <<srv, loop, adv, wire, handled>>

vars == <<codecVars, ataVars, lbaVars, diskVars, srvVars>>

(***************************************************************************)
(* Errors                                                                  *)
(***************************************************************************)
Nil == "nil"

Panic == "panic"

ErrUnexpectedEOF == "io.ErrUnexpectedEOF"

ErrorUnrecognizedCommandCode == "ErrorUnrecognizedCommandCode"

ErrorBadArgumentParameter == "ErrorBadArgumentParameter"

ErrorUnsupportedVersion == "ErrorUnsupportedVersion"

(***************************************************************************)
(* Program constants                                                       *)
(***************************************************************************)
Version == 1

CommandIssueATACommand == 0

CommandQueryConfigInformation == 1

CommandMACMaskList == 2

CommandReserveRelease == 3

headerLen == 1 + 1 + 2 + 1 + 1 + 4

ataArgLen == 1 + 1 + 1 + 1 + 6 + 2

configArgLen == 2 + 2 + 1 + 1 + 2

macMaskArgLen == 1 + 1 + 1 + 1

directiveLen == 1 + 1 + 6

reserveReleaseArgLen == 2

\* The longest config string, per AoEr11, Section 3.2.
MaxStringLength == 1024

(***************************************************************************)
(* Fixed-width arithmetic and slices                                       *)
(***************************************************************************)
\* A value converted to uint8: arithmetic on uint8 operands wraps.
Uint8(x) == x % 256

\* x & (1 << k) != 0
Bit(x, k) == (x \div (2 ^ k)) % 2 = 1

\* binary.BigEndian.PutUint16
PutUint16(x) == <<(x \div 256) % 256, x % 256>>

\* binary.BigEndian.Uint16(b[i:i+2]), i counted from 0
BigEndianUint16(b, i) == b[i + 1] * 256 + b[i + 2]

\* b[lo:hi], lo and hi counted from 0
Slice(b, lo, hi) == SubSeq(b, lo + 1, hi)

\* b[lo:]
SliceFrom(b, lo) == SubSeq(b, lo + 1, Len(b))

\* make([]byte, n)
MakeBytes(n) == [k \in 1..n |-> 0]

\* copy(b[n:], src), n counted from 0: copies min(len(b) - n, len(src)) bytes
CopyAt(b, n, src) ==
    [k \in 1..Len(b) |-> IF k > n /\ k <= n + Len(src) THEN src[k - n] ELSE b[k]]

Ok(bytes) == [err |-> Nil, b |-> bytes]

Fail(e) == [err |-> e, b |-> << >>]

(***************************************************************************)
(* Values                                                                  *)
(***************************************************************************)
\* A nil Arg interface value.
NilArg == [type |-> "nil"]

\* new(ATAArg)
ZeroATAArg ==
    [type |-> "ATAArg", FlagLBA48Extended |-> FALSE,
     FlagATADeviceHeadRegister |-> FALSE, FlagAsynchronous |-> FALSE,
     FlagWrite |-> FALSE, ErrFeature |-> 0, SectorCount |-> 0, CmdStatus |-> 0,
     LBA |-> <<0, 0, 0, 0, 0, 0>>, Data |-> << >>]

\* new(ConfigArg)
ZeroConfigArg ==
    [type |-> "ConfigArg", BufferCount |-> 0, FirmwareVersion |-> 0,
     SectorCount |-> 0, Version |-> 0, Command |-> 0, StringLength |-> 0,
     String |-> << >>]

\* new(MACMaskArg)
ZeroMACMaskArg ==
    [type |-> "MACMaskArg", Command |-> 0, Error |-> 0, DirCount |-> 0,
     Directives |-> << >>]

\* new(ReserveReleaseArg)
ZeroReserveReleaseArg ==
    [type |-> "ReserveReleaseArg", Command |-> 0, NMACs |-> 0, MACs |-> << >>]

\* new(Directive)
ZeroDirective == [Command |-> 0, MAC |-> << >>]

\* A nil *Directive: an element of a Directives slice not yet assigned.
NilDirective == [Command |-> 0 - 1, MAC |-> << >>]

\* new(Header)
ZeroHeader ==
    [Version |-> 0, FlagResponse |-> FALSE, FlagError |-> FALSE, Error |-> 0,
     Major |-> 0, Minor |-> 0, Command |-> 0, Tag |-> <<0, 0, 0, 0>>,
     Arg |-> NilArg]

(***************************************************************************)
(* ATAArg                                                                  *)
(***************************************************************************)
\* The asynchronous flag put at bit 2 instead of bit 1.
ATAFlagsByte_AsyncBit2(a) ==
      (IF a.FlagLBA48Extended THEN 64 ELSE 0)
    + (IF a.FlagATADeviceHeadRegister THEN 16 ELSE 0)
    + (IF a.FlagAsynchronous THEN 4 ELSE 0)
    + (IF a.FlagWrite THEN 1 ELSE 0)

\* The flags byte of an ATAArg: LBA48 bit 6, device/head bit 4,
\* asynchronous bit 1, write bit 0.
ATAFlagsByte(a) ==
      (IF a.FlagLBA48Extended THEN 64 ELSE 0)
    + (IF a.FlagATADeviceHeadRegister THEN 16 ELSE 0)
    + (IF a.FlagAsynchronous THEN 2 ELSE 0)
    + (IF a.FlagWrite THEN 1 ELSE 0)

MarshalATAArg(a) ==
    LET b0 == MakeBytes(ataArgLen + Len(a.Data))
        b1 == CopyAt(b0, 0, <<ATAFlagsByte(a), a.ErrFeature, a.SectorCount,
                               a.CmdStatus>>)
        b2 == CopyAt(b1, 4, a.LBA)
    IN  Ok(CopyAt(b2, 12, a.Data))

UnmarshalATAArg(b) ==
    IF Len(b) < ataArgLen THEN [err |-> ErrUnexpectedEOF, v |-> ZeroATAArg]
    ELSE IF b[11] # 0 \/ b[12] # 0
    THEN [err |-> ErrorBadArgumentParameter, v |-> ZeroATAArg]
    ELSE [err |-> Nil,
          v |-> [type |-> "ATAArg",
                 FlagLBA48Extended |-> Bit(b[1], 6),
                 FlagATADeviceHeadRegister |-> Bit(b[1], 4),
                 FlagAsynchronous |-> Bit(b[1], 1),
                 FlagWrite |-> Bit(b[1], 0),
                 ErrFeature |-> b[2],
                 SectorCount |-> b[3],
                 CmdStatus |-> b[4],
                 LBA |-> Slice(b, 4, 10),
                 Data |-> SliceFrom(b, 12)]]

(***************************************************************************)
(* ConfigArg                                                               *)
(***************************************************************************)
\* The version and the command put in each other's nibble.
ConfigVersionCommandByte_Swapped(c) == Uint8(c.Command * 16) + (c.Version % 16)

\* Byte 5: version in the 4 most significant bits (shifted within a uint8),
\* command in the 4 least significant bits.
ConfigVersionCommandByte(c) == Uint8(c.Version * 16) + c.Command

MarshalConfigArg(c) ==
    IF c.Command > 15 THEN Fail(ErrorBadArgumentParameter)
    ELSE IF c.StringLength # Len(c.String) THEN Fail(ErrorBadArgumentParameter)
    ELSE IF c.StringLength > MaxStringLength THEN Fail(ErrorBadArgumentParameter)
    ELSE LET b0 == MakeBytes(configArgLen + c.StringLength)
             vc == ConfigVersionCommandByte(c)
             b1 == CopyAt(b0, 0, PutUint16(c.BufferCount)
                                 \o PutUint16(c.FirmwareVersion)
                                 \o <<c.SectorCount, vc>>
                                 \o PutUint16(c.StringLength))
         IN  Ok(CopyAt(b1, 8, c.String))

\* The limit on StringLength checked before the bytes that remain.
UnmarshalConfigArg_LimitFirst(b) ==
    IF Len(b) < configArgLen THEN [err |-> ErrUnexpectedEOF, v |-> ZeroConfigArg]
    ELSE LET c == [type |-> "ConfigArg",
                   BufferCount |-> BigEndianUint16(b, 0),
                   FirmwareVersion |-> BigEndianUint16(b, 2),
                   SectorCount |-> b[5],
                   Version |-> b[6] \div 16,
                   Command |-> b[6] % 16,
                   StringLength |-> BigEndianUint16(b, 6),
                   String |-> << >>]
         IN  IF c.StringLength > MaxStringLength
             THEN [err |-> ErrorBadArgumentParameter, v |-> c]
             ELSE IF Len(SliceFrom(b, 8)) < c.StringLength
             THEN [err |-> ErrUnexpectedEOF, v |-> c]
             ELSE [err |-> Nil,
                   v |-> [c EXCEPT !.String =
                              CopyAt(MakeBytes(c.StringLength), 0,
                                     Slice(b, 8, 8 + c.StringLength))]]

\* Every byte after the prefix copied into the string.
UnmarshalConfigArg_WholeTail(b) ==
    IF Len(b) < configArgLen THEN [err |-> ErrUnexpectedEOF, v |-> ZeroConfigArg]
    ELSE LET c == [type |-> "ConfigArg",
                   BufferCount |-> BigEndianUint16(b, 0),
                   FirmwareVersion |-> BigEndianUint16(b, 2),
                   SectorCount |-> b[5],
                   Version |-> b[6] \div 16,
                   Command |-> b[6] % 16,
                   StringLength |-> BigEndianUint16(b, 6),
                   String |-> << >>]
         IN  IF Len(SliceFrom(b, 8)) < c.StringLength
             THEN [err |-> ErrUnexpectedEOF, v |-> c]
             ELSE IF c.StringLength > MaxStringLength
             THEN [err |-> ErrorBadArgumentParameter, v |-> c]
             ELSE [err |-> Nil, v |-> [c EXCEPT !.String = SliceFrom(b, 8)]]

\* c.UnmarshalBinary(b): the bytes that remain are checked against
\* StringLength before StringLength is checked against the limit; the bytes
\* after the string are not looked at.
UnmarshalConfigArg(b) ==
    IF Len(b) < configArgLen THEN [err |-> ErrUnexpectedEOF, v |-> ZeroConfigArg]
    ELSE LET c == [type |-> "ConfigArg",
                   BufferCount |-> BigEndianUint16(b, 0),
                   FirmwareVersion |-> BigEndianUint16(b, 2),
                   SectorCount |-> b[5],
                   Version |-> b[6] \div 16,
                   Command |-> b[6] % 16,
                   StringLength |-> BigEndianUint16(b, 6),
                   String |-> << >>]
         IN  IF Len(SliceFrom(b, 8)) < c.StringLength
             THEN [err |-> ErrUnexpectedEOF, v |-> c]
             ELSE IF c.StringLength > MaxStringLength
             THEN [err |-> ErrorBadArgumentParameter, v |-> c]
             ELSE [err |-> Nil,
                   v |-> [c EXCEPT !.String =
                              CopyAt(MakeBytes(c.StringLength), 0,
                                     Slice(b, 8, 8 + c.StringLength))]]

(***************************************************************************)
(* Directive and MACMaskArg                                                *)
(***************************************************************************)
MarshalDirective(d) ==
    IF d = NilDirective THEN Fail(Panic)
    ELSE IF Len(d.MAC) # 6 THEN Fail(ErrorBadArgumentParameter)
    ELSE Ok(CopyAt(CopyAt(MakeBytes(directiveLen), 1, <<d.Command>>), 2, d.MAC))

UnmarshalDirective(b) ==
    IF Len(b) # directiveLen THEN [err |-> ErrUnexpectedEOF, v |-> ZeroDirective]
    ELSE IF b[1] # 0 THEN [err |-> ErrorBadArgumentParameter, v |-> ZeroDirective]
    ELSE [err |-> Nil,
          v |-> [Command |-> b[2],
                 MAC |-> CopyAt(MakeBytes(6), 0, SliceFrom(b, 2))]]

\* len(b) of make([]byte, macMaskArgLen+(directiveLen*m.DirCount)): the
\* operands take DirCount's type, uint8.
MACMaskBufLen(dirCount) == Uint8(macMaskArgLen + Uint8(directiveLen * dirCount))

\* The least element of a non-empty set of numbers.
Min(S) == CHOOSE x \in S : \A y \in S : x <= y

\* The loop of MarshalBinary over m.Directives, b being the allocated bytes
\* with the 4-byte prefix set.  Iteration i (from 1) encodes directive i and
\* returns its error if it has one, else writes b[n:n+directiveLen] at
\* n = 4 + directiveLen * (i - 1), which panics beyond len(b).
MACMaskMarshalLoop(ds, b) ==
    LET db == [i \in 1..Len(ds) |-> MarshalDirective(ds[i])]
        n(i) == 4 + directiveLen * (i - 1)
        stops == {i \in 1..Len(ds) :
                     db[i].err # Nil \/ n(i) + directiveLen > Len(b)}
    IN  IF stops # {}
        THEN IF db[Min(stops)].err # Nil THEN Fail(db[Min(stops)].err)
             ELSE Fail(Panic)
        ELSE Ok([k \in 1..Len(b) |->
                    IF k > 4 /\ k <= 4 + directiveLen * Len(ds)
                    THEN LET d == db[(k - 5) \div directiveLen + 1]
                         IN  d.b[((k - 5) % directiveLen) + 1]
                    ELSE b[k]])

MarshalMACMaskArg(m) ==
    IF m.DirCount # Len(m.Directives) THEN Fail(ErrorBadArgumentParameter)
    ELSE LET b0 == MakeBytes(MACMaskBufLen(m.DirCount))
             b1 == CopyAt(b0, 1, <<m.Command, m.Error, m.DirCount>>)
         IN  MACMaskMarshalLoop(m.Directives, b1)

\* The loop of UnmarshalBinary over the DirCount directives: directive i
\* (from 0) is decoded from b[4+i*directiveLen : 4+i*directiveLen+directiveLen]
\* and the first error is returned, the directives from there on left nil.
MACMaskUnmarshalLoop(m, b) ==
    LET d == [i \in 1..m.DirCount |->
                 UnmarshalDirective(
                     Slice(b, 4 + (i - 1) * directiveLen,
                           4 + (i - 1) * directiveLen + directiveLen))]
        stops == {i \in 1..m.DirCount : d[i].err # Nil}
    IN  IF stops # {}
        THEN [err |-> d[Min(stops)].err,
              v |-> [m EXCEPT !.Directives =
                        [i \in 1..m.DirCount |->
                            IF i < Min(stops) THEN d[i].v ELSE NilDirective]]]
        ELSE [err |-> Nil,
              v |-> [m EXCEPT !.Directives = [i \in 1..m.DirCount |-> d[i].v]]]

\* The span of the directives checked with < where the code has !=.
UnmarshalMACMaskArg_AtLeast(b) ==
    IF Len(b) < macMaskArgLen THEN [err |-> ErrUnexpectedEOF, v |-> ZeroMACMaskArg]
    ELSE IF b[1] # 0 THEN [err |-> ErrorBadArgumentParameter, v |-> ZeroMACMaskArg]
    ELSE LET m == [type |-> "MACMaskArg", Command |-> b[2], Error |-> b[3],
                   DirCount |-> b[4], Directives |-> << >>]
         IN  IF Len(SliceFrom(b, 4)) < directiveLen * m.DirCount
             THEN [err |-> ErrUnexpectedEOF, v |-> m]
             ELSE MACMaskUnmarshalLoop(m, b)

\* m.UnmarshalBinary(b): the bytes after the prefix must be exactly those of
\* DirCount directives.
UnmarshalMACMaskArg(b) ==
    IF Len(b) < macMaskArgLen THEN [err |-> ErrUnexpectedEOF, v |-> ZeroMACMaskArg]
    ELSE IF b[1] # 0 THEN [err |-> ErrorBadArgumentParameter, v |-> ZeroMACMaskArg]
    ELSE LET m == [type |-> "MACMaskArg", Command |-> b[2], Error |-> b[3],
                   DirCount |-> b[4], Directives |-> << >>]
         IN  IF Len(SliceFrom(b, 4)) # directiveLen * m.DirCount
             THEN [err |-> ErrUnexpectedEOF, v |-> m]
             ELSE MACMaskUnmarshalLoop(m, b)

(***************************************************************************)
(* ReserveReleaseArg                                                       *)
(***************************************************************************)
\* len(b) of make([]byte, reserveReleaseArgLen+(r.NMACs*6)), in uint8.
ReserveReleaseBufLen(nMACs) == Uint8(reserveReleaseArgLen + Uint8(nMACs * 6))

\* The loop of MarshalBinary over r.MACs, b being the allocated bytes with
\* the 2-byte prefix set.  Iteration i (from 1) returns an error if address
\* i is not 6 bytes long, else writes b[n:n+6] at n = 2 + 6 * (i - 1), which
\* panics beyond len(b).
ReserveReleaseMarshalLoop(ms, b) ==
    LET n(i) == 2 + 6 * (i - 1)
        stops == {i \in 1..Len(ms) : Len(ms[i]) # 6 \/ n(i) + 6 > Len(b)}
    IN  IF stops # {}
        THEN IF Len(ms[Min(stops)]) # 6 THEN Fail(ErrorBadArgumentParameter)
             ELSE Fail(Panic)
        ELSE Ok([k \in 1..Len(b) |->
                    IF k > 2 /\ k <= 2 + 6 * Len(ms)
                    THEN LET m == ms[(k - 3) \div 6 + 1]
                         IN  m[((k - 3) % 6) + 1]
                    ELSE b[k]])

\* b[0] and b[1] are written first: an index out of range if len(b) < 2.
MarshalReserveReleaseArg(r) ==
    IF r.NMACs # Len(r.MACs) THEN Fail(ErrorBadArgumentParameter)
    ELSE LET b0 == MakeBytes(ReserveReleaseBufLen(r.NMACs))
         IN  IF Len(b0) < 2 THEN Fail(Panic)
             ELSE ReserveReleaseMarshalLoop(r.MACs,
                      CopyAt(b0, 0, <<r.Command, Uint8(r.NMACs)>>))

UnmarshalReserveReleaseArg(b) ==
    IF Len(b) < reserveReleaseArgLen
    THEN [err |-> ErrUnexpectedEOF, v |-> ZeroReserveReleaseArg]
    ELSE LET r == [type |-> "ReserveReleaseArg", Command |-> b[1],
                   NMACs |-> b[2], MACs |-> << >>]
         IN  IF Len(SliceFrom(b, 2)) # 6 * r.NMACs
             THEN [err |-> ErrUnexpectedEOF, v |-> r]
             ELSE [err |-> Nil,
                   v |-> [r EXCEPT !.MACs =
                              [i \in 1..r.NMACs |->
                                  CopyAt(MakeBytes(6), 0,
                                         Slice(b, 2 + (i - 1) * 6,
                                               2 + (i - 1) * 6 + 6))]]]

(***************************************************************************)
(* Header                                                                  *)
(***************************************************************************)
\* An Arg whose MarshalBinary returns a fixed error (the tests' errArg).
ErrArg(e) == [type |-> "errArg", err |-> e]

\* h.Arg.MarshalBinary(): dispatch on the dynamic type of the Arg.
MarshalArg(a) ==
    CASE a.type = "ATAArg" -> MarshalATAArg(a)
      [] a.type = "ConfigArg" -> MarshalConfigArg(a)
      [] a.type = "MACMaskArg" -> MarshalMACMaskArg(a)
      [] a.type = "ReserveReleaseArg" -> MarshalReserveReleaseArg(a)
      [] a.type = "errArg" -> Fail(a.err)

\* The cases of MACMaskList and ReserveRelease taken for each other.
UnmarshalArg_Swapped(command, b) ==
    CASE command = CommandIssueATACommand -> UnmarshalATAArg(b)
      [] command = CommandQueryConfigInformation -> UnmarshalConfigArg(b)
      [] command = CommandMACMaskList -> UnmarshalReserveReleaseArg(b)
      [] command = CommandReserveRelease -> UnmarshalMACMaskArg(b)

\* a.UnmarshalBinary(b) on the new(T) that the switch on Command selected.
UnmarshalArg(command, b) ==
    CASE command = CommandIssueATACommand -> UnmarshalATAArg(b)
      [] command = CommandQueryConfigInformation -> UnmarshalConfigArg(b)
      [] command = CommandMACMaskList -> UnmarshalMACMaskArg(b)
      [] command = CommandReserveRelease -> UnmarshalReserveReleaseArg(b)

\* The response and error flags put at each other's bit.
HeaderFlagsByte_Swapped(h) ==
      Uint8(h.Version * 16)
    + (IF h.FlagResponse THEN 4 ELSE 0)
    + (IF h.FlagError THEN 8 ELSE 0)

\* The first byte: version in the top 4 bits, response flag bit 3, error
\* flag bit 2.
HeaderFlagsByte(h) ==
      Uint8(h.Version * 16)
    + (IF h.FlagResponse THEN 8 ELSE 0)
    + (IF h.FlagError THEN 4 ELSE 0)

MarshalHeader(h) ==
    IF h.Version # Version THEN Fail(ErrorUnsupportedVersion)
    ELSE IF h.Arg.type = "nil" THEN Fail(ErrorBadArgumentParameter)
    ELSE LET ab == MarshalArg(h.Arg)
         IN  IF ab.err # Nil THEN Fail(ab.err)
             ELSE LET b0 == MakeBytes(headerLen + Len(ab.b))
                      b1 == CopyAt(b0, 0, <<HeaderFlagsByte(h), h.Error>>
                                          \o PutUint16(h.Major)
                                          \o <<h.Minor, h.Command>>)
                      b2 == CopyAt(b1, 6, h.Tag)
                  IN  Ok(CopyAt(b2, 10, ab.b))

UnmarshalHeader(b) ==
    IF Len(b) < headerLen THEN [err |-> ErrUnexpectedEOF, v |-> ZeroHeader]
    ELSE LET h0 == [ZeroHeader EXCEPT !.Version = b[1] \div 16]
             h1 == [h0 EXCEPT !.FlagResponse = Bit(b[1], 3),
                              !.FlagError = Bit(b[1], 2),
                              !.Error = b[2],
                              !.Major = BigEndianUint16(b, 2),
                              !.Minor = b[5],
                              !.Command = b[6],
                              !.Tag = Slice(b, 6, 10)]
         IN  IF h0.Version # Version
             THEN [err |-> ErrorUnsupportedVersion, v |-> h0]
             ELSE IF h1.Command \notin {CommandIssueATACommand,
                                        CommandQueryConfigInformation,
                                        CommandMACMaskList,
                                        CommandReserveRelease}
             THEN [err |-> ErrorUnrecognizedCommandCode, v |-> h1]
             ELSE LET a == UnmarshalArg(h1.Command, SliceFrom(b, 10))
                  IN  IF a.err # Nil THEN [err |-> a.err, v |-> h1]
                      ELSE [err |-> Nil, v |-> [h1 EXCEPT !.Arg = a.v]]

(***************************************************************************)
(* The codecs by name                                                      *)
(***************************************************************************)
ArgCodecs == {"ATAArg", "ConfigArg", "MACMaskArg", "ReserveReleaseArg"}

Marshal(c, v) ==
    CASE c = "Header" -> MarshalHeader(v)
      [] c = "ATAArg" -> MarshalATAArg(v)
      [] c = "ConfigArg" -> MarshalConfigArg(v)
      [] c = "MACMaskArg" -> MarshalMACMaskArg(v)
      [] c = "ReserveReleaseArg" -> MarshalReserveReleaseArg(v)

Unmarshal(c, b) ==
    CASE c = "Header" -> UnmarshalHeader(b)
      [] c = "ATAArg" -> UnmarshalATAArg(b)
      [] c = "ConfigArg" -> UnmarshalConfigArg(b)
      [] c = "MACMaskArg" -> UnmarshalMACMaskArg(b)
      [] c = "ReserveReleaseArg" -> UnmarshalReserveReleaseArg(b)

(***************************************************************************)
(* Bounds of the checked inputs                                            *)
(***************************************************************************)
\* Longest data payload, config string and run of surplus bytes enumerated
\* in full (longer ones are the chosen lengths of LongLengths).
MaxLen == 2

\* Longest directive / MAC list enumerated in full (longer ones are the
\* chosen counts of MACMaskCounts and ReserveReleaseCounts).
MaxCount == 2

(***************************************************************************)
(* Inputs: values                                                          *)
(***************************************************************************)
SomeBytes == {0, 255}

\* Every byte string over SomeBytes of length n.
BytesOfLen(n) == [1..n -> SomeBytes]

ShortBytes == UNION {BytesOfLen(n) : n \in 0..MaxLen}

\* A byte string of length n with varied content.
Pattern(n, seed) == [k \in 1..n |-> (seed + 7 * k) % 256]

\* A 6-byte hardware address, different for each i in 0..255.
Mac(i) == <<i % 256, (i + 1) % 256, 222, 173, 190, 239>>

DirectiveAt(i) == [Command |-> i % 3, MAC |-> Mac(i)]

\* A hardware address of the wrong length.
BadMacs == {<<222, 173, 190, 239, 222>>, <<222, 173, 190, 239, 222, 173, 0>>}

\* List lengths: the short ones, and those around the points where
\* 4 + 8 n and 2 + 6 n pass 255.
MACMaskCounts == (0..MaxCount) \cup {31, 32, 33, 255}

ReserveReleaseCounts == (0..MaxCount) \cup {42, 43, 44, 85, 255}

Scalars == {<<0, 0, 0>>, <<1, 2, 3>>, <<255, 255, 255>>}

LBAs == {<<1, 2, 3, 4, 5, 6>>, <<255, 255, 255, 255, 255, 255>>}

ATAArgValues ==
    {[type |-> "ATAArg", FlagLBA48Extended |-> f6,
      FlagATADeviceHeadRegister |-> f4, FlagAsynchronous |-> f1,
      FlagWrite |-> f0, ErrFeature |-> s[1], SectorCount |-> s[2],
      CmdStatus |-> s[3], LBA |-> lba, Data |-> d] :
        f6 \in BOOLEAN, f4 \in BOOLEAN, f1 \in BOOLEAN, f0 \in BOOLEAN,
        s \in Scalars, lba \in LBAs, d \in ShortBytes}

ConfigScalars == {<<10, 1, 2>>, <<65535, 65535, 255>>}

\* Config strings: the short ones, and one at and one above the limit.
ConfigStrings ==
    ShortBytes \cup {Pattern(MaxStringLength, 1), Pattern(MaxStringLength + 1, 1)}

ConfigArgValues ==
    UNION {{[type |-> "ConfigArg", BufferCount |-> s[1],
             FirmwareVersion |-> s[2], SectorCount |-> s[3], Version |-> ver,
             Command |-> cmd, StringLength |-> n, String |-> str] :
               s \in ConfigScalars, ver \in {1, 15, 16, 255},
               cmd \in {0, 4, 15, 16},
               n \in {Len(str), Len(str) + 1}} : str \in ConfigStrings}

\* n directives, the one at position bad (if any) with the address badMac.
Directives(n, bad, badMac) ==
    [i \in 1..n |-> IF i = bad THEN [Command |-> 1, MAC |-> badMac]
                    ELSE DirectiveAt(i)]

MACMaskArgValues ==
    UNION {{[type |-> "MACMaskArg", Command |-> cmd, Error |-> e,
             DirCount |-> cnt, Directives |-> Directives(n, bad, m)] :
               cmd \in {0, 1}, e \in {0, 3}, bad \in {0, 1, n},
               cnt \in {n, (n + 1) % 256}, m \in BadMacs} : n \in MACMaskCounts}

MACs(n, bad, badMac) == [i \in 1..n |-> IF i = bad THEN badMac ELSE Mac(i)]

ReserveReleaseArgValues ==
    UNION {{[type |-> "ReserveReleaseArg", Command |-> cmd, NMACs |-> cnt,
             MACs |-> MACs(n, bad, m)] :
               cmd \in {0, 2}, bad \in {0, 1, n}, cnt \in {n, (n + 1) % 256},
               m \in BadMacs} : n \in ReserveReleaseCounts}

ArgValues(c) ==
    CASE c = "ATAArg" -> ATAArgValues
      [] c = "ConfigArg" -> ConfigArgValues
      [] c = "MACMaskArg" -> MACMaskArgValues
      [] c = "ReserveReleaseArg" -> ReserveReleaseArgValues

\* The Args put into Headers: a part of each variant's values, a nil Arg,
\* and an Arg whose encoder fails.
HeaderArgs ==
       {a \in ATAArgValues : a.ErrFeature = 1 /\ a.LBA[1] = 1
                             /\ a.FlagLBA48Extended = a.FlagWrite
                             /\ a.FlagAsynchronous = a.FlagWrite}
  \cup {a \in ConfigArgValues : a.BufferCount = 10 /\ a.Version \in {1, 16}
                                /\ a.Command \in {4, 16}}
  \cup {a \in MACMaskArgValues : a.Command = 1 /\ a.Error = 3}
  \cup {a \in ReserveReleaseArgValues : a.Command = 2}
  \cup {NilArg, ErrArg(ErrUnexpectedEOF)}

HeaderFields ==
    {[Error |-> 0, Major |-> 1, Minor |-> 2, Tag |-> <<0, 0, 0, 10>>],
     [Error |-> 255, Major |-> 65535, Minor |-> 255,
      Tag |-> <<255, 254, 253, 252>>]}

\* The Command that selects an Arg's variant (0 for the others).
CommandFor(a) ==
    CASE a.type = "ConfigArg" -> CommandQueryConfigInformation
      [] a.type = "MACMaskArg" -> CommandMACMaskList
      [] a.type = "ReserveReleaseArg" -> CommandReserveRelease
      [] OTHER -> CommandIssueATACommand

\* Headers: each Arg under its own Command and under another one.
HeaderValues ==
    UNION {{[Version |-> ver, FlagResponse |-> fr, FlagError |-> fe,
             Error |-> f.Error, Major |-> f.Major, Minor |-> f.Minor,
             Command |-> cmd, Tag |-> f.Tag, Arg |-> a] :
               ver \in {1, 2}, fr \in BOOLEAN, fe \in BOOLEAN,
               f \in HeaderFields,
               cmd \in {CommandFor(a), (CommandFor(a) + 1) % 5}} :
           a \in HeaderArgs}

(***************************************************************************)
(* Inputs: bytes                                                           *)
(***************************************************************************)
\* The size of the buffer Serve reads a frame into.
FrameBufferLen == 2048

PrefixesOf(b) == {SubSeq(b, 1, k) : k \in 0..Len(b)}

Zeros(n) == [k \in 1..n |-> 0]

ATAArgBytes ==
       {<<fl>> \o s \o lba \o r \o d :
           fl \in {0, 83, 255, 64, 172}, s \in Scalars, lba \in LBAs,
           r \in {<<0, 0>>, <<1, 0>>, <<0, 1>>}, d \in ShortBytes}
  \cup PrefixesOf(<<83, 1, 2, 3, 6, 6, 6, 6, 6, 6, 0>>)

\* string_length fields: the short ones, around the limit, and the largest.
ConfigLengths == (0..(MaxLen + 1)) \cup {1024, 1025, 65535}

\* Numbers of bytes after the 8-byte prefix, for a string_length of sl.
TailLens(sl) ==
    ({0, sl - 1, sl, sl + 1, sl + MaxLen}
         \cup (IF sl > 1025 THEN {1025} ELSE {})) \cap (0..FrameBufferLen)

ConfigArgBytes ==
       UNION {{s \o <<vc>> \o PutUint16(sl) \o Pattern(t, 95) :
                 s \in {<<0, 10, 0, 1, 2>>, <<48, 48, 48, 48, 48>>,
                        <<255, 255, 255, 255, 255>>},
                 vc \in {16, 18, 48, 15, 255}, t \in TailLens(sl)} :
              sl \in ConfigLengths}
  \cup PrefixesOf(<<0, 10, 0, 1, 2, 18, 0>>)

\* n directives on the wire, the one at position bad (if any) with a
\* non-zero reserved byte.
DirectiveBytes(n, bad) ==
    [k \in 1..(directiveLen * n) |->
        LET i == (k - 1) \div directiveLen + 1
            j == (k - 1) % directiveLen
        IN  IF j = 0 THEN (IF i = bad THEN 1 ELSE 0)
            ELSE IF j = 1 THEN i % 3
            ELSE LET m == Mac(i) IN m[j - 1]]

\* Numbers of list elements on the wire for a count field of cnt; surplus
\* bytes follow only a list of exactly cnt elements.
ActualCounts(cnt) == {cnt - 1, cnt, cnt + 1} \cap (0..255)

Pads(cnt, n) == IF n = cnt THEN 0..MaxLen ELSE {0}

MACMaskArgBytes ==
       UNION {UNION {{<<r0>> \o ce \o <<cnt>> \o DirectiveBytes(n, bad)
                          \o Zeros(pad) :
                        r0 \in {0, 1}, ce \in {<<0, 0>>, <<1, 3>>, <<255, 255>>},
                        bad \in {0, 1, n}, pad \in Pads(cnt, n)} :
                     n \in ActualCounts(cnt)} : cnt \in MACMaskCounts}
  \cup PrefixesOf(<<0, 1, 3>>)
       \* "zero directives (with trailing bytes)" of TestMACMaskArgUnmarshalBinary
  \cup {Zeros(macMaskArgLen + directiveLen)}

MACBytes(n) ==
    [k \in 1..(6 * n) |->
        LET m == Mac((k - 1) \div 6 + 1) IN m[((k - 1) % 6) + 1]]

ReserveReleaseArgBytes ==
       UNION {UNION {{<<cmd, cnt>> \o MACBytes(n) \o Zeros(pad) :
                        cmd \in {0, 2, 255}, pad \in Pads(cnt, n)} :
                     n \in ActualCounts(cnt)} : cnt \in ReserveReleaseCounts}
  \cup PrefixesOf(<<2>>)

ArgBytes(c) ==
    CASE c = "ATAArg" -> ATAArgBytes
      [] c = "ConfigArg" -> ConfigArgBytes
      [] c = "MACMaskArg" -> MACMaskArgBytes
      [] c = "ReserveReleaseArg" -> ReserveReleaseArgBytes

\* The 10 bytes before the Arg.
HeaderBytes(b0, f, cmd) ==
    <<b0, f.Error>> \o PutUint16(f.Major) \o <<f.Minor, cmd>> \o f.Tag

\* The go-fuzz crasher of TestHeaderUnmarshalAndMarshalBinary.
FuzzCrasher ==
    <<16, 48, 48, 48, 48, 1, 48, 48, 48, 48, 48, 48, 48, 48, 48, 48, 0, 0>>

\* The argument bytes put after a header, for the variant a Command selects.
FuzzArgBytes(cmd) ==
    CASE cmd = CommandIssueATACommand ->
             {b \in ATAArgBytes : Len(b) < ataArgLen \/ (b[2] = 1 /\ b[5] = 1)}
      [] cmd = CommandQueryConfigInformation ->
             {b \in ConfigArgBytes :
                 Len(b) < configArgLen \/ (b[1] = 0 /\ b[6] \in {18, 48})}
      [] cmd = CommandMACMaskList ->
             {b \in MACMaskArgBytes : Len(b) < macMaskArgLen \/ b[2] = 1}
      [] cmd = CommandReserveRelease ->
             {b \in ReserveReleaseArgBytes :
                 Len(b) < reserveReleaseArgLen \/ b[1] = 2}

FuzzInputs ==
       \* a supported version, each variant's bytes under its own Command
       UNION {{HeaderBytes(b0, f, cmd) \o a :
                 b0 \in {16, 28, 31}, f \in HeaderFields,
                 a \in FuzzArgBytes(cmd)} : cmd \in 0..3}
       \* each variant's bytes under every Command, known or not
  \cup UNION {{HeaderBytes(16, f, cmd) \o a :
                 f \in HeaderFields, cmd \in {0, 1, 2, 3, 4, 255}} :
              a \in UNION {FuzzArgBytes(c) : c \in 0..3}}
       \* an unsupported version
  \cup {HeaderBytes(b0, f, cmd) \o a :
           b0 \in {0, 32, 255}, f \in HeaderFields, cmd \in {0, 4},
           a \in {<< >>, Zeros(ataArgLen)}}
       \* truncated input
  \cup PrefixesOf(FuzzCrasher)
  \cup PrefixesOf(<<16, 0, 0, 1, 2, 0, 0, 0, 0, 10,
                    83, 1, 2, 3, 6, 6, 6, 6, 6, 6, 0, 0, 102, 111, 111>>)

(***************************************************************************)
(* The state: one codec, one input, and the results of the two calls made  *)
(* on it, the second on the first one's output                             *)
(***************************************************************************)
NotDecoded == [done |-> FALSE, err |-> Nil, v |-> NilArg]

NotEncoded == [done |-> FALSE, err |-> Nil, b |-> << >>]

\* No call of ServeATA is made or in progress.
NoResult == [n |-> 0 - 1, err |-> Nil]

NoStore == [present |-> FALSE, writer |-> FALSE, identifier |-> FALSE]

ATAIdle ==
    /\ pc = "idle"
    /\ req = ZeroHeader
    /\ rs = NoStore
    /\ warg = NilArg
    /\ ops = << >>
    /\ sent = << >>
    /\ out = NoResult

\* The parts of the state that a specification does not use stay as they
\* are here: calculateLBA not called, no byte array behind the store, no
\* Server.
Unused(part) ==
    CASE part = "lba" ->
             /\ argLBA = << >>
             /\ arg48Bit = FALSE
             /\ retLBA = << >>
      [] part = "disk" ->
             /\ disk = [data |-> << >>, pos |-> 0]
             /\ log = << >>
      [] part = "server" ->
             /\ srv = [Handler |-> "nil"]
             /\ loop = [pc |-> "idle"]
             /\ adv = "idle"
             /\ wire = [by |-> "none"]
             /\ handled = [called |-> FALSE]

Init ==
    /\ ATAIdle
    /\ Unused("lba")
    /\ Unused("disk")
    /\ Unused("server")
    /\ dec = NotDecoded
    /\ enc = NotEncoded
    /\ ret = "none"
    /\ \/ /\ codec = "Fuzz"
          /\ first = "Unmarshal"
          /\ inB \in FuzzInputs
          /\ inV = NilArg
       \/ /\ codec = "Header"
          /\ first = "Marshal"
          /\ inB = << >>
          /\ inV \in HeaderValues
       \/ /\ codec \in ArgCodecs
          /\ first = "Marshal"
          /\ inB = << >>
          /\ inV \in ArgValues(codec)
       \/ /\ codec \in ArgCodecs
          /\ first = "Unmarshal"
          /\ inB \in ArgBytes(codec)
          /\ inV = NilArg

\* c.MarshalBinary() on the input value, or on the value just decoded.
MarshalStep(c) ==
    /\ ~enc.done
    /\ \/ first = "Marshal"
       \/ first = "Unmarshal" /\ dec.done /\ dec.err = Nil
    /\ LET r == Marshal(c, IF first = "Marshal" THEN inV ELSE dec.v)
       IN  enc' = [done |-> TRUE, err |-> r.err, b |-> r.b]
    /\ UNCHANGED <<codec, first, inB, inV, dec, ret,
                 ataVars, lbaVars, diskVars, srvVars>>

\* c.UnmarshalBinary(b) on the input bytes, or on the bytes just encoded.
UnmarshalStep(c) ==
    /\ ~dec.done
    /\ \/ first = "Unmarshal"
       \/ first = "Marshal" /\ enc.done /\ enc.err = Nil
    /\ LET r == Unmarshal(c, IF first = "Unmarshal" THEN inB ELSE enc.b)
       IN  dec' = [done |-> TRUE, err |-> r.err, v |-> r.v]
    /\ UNCHANGED <<codec, first, inB, inV, enc, ret,
                 ataVars, lbaVars, diskVars, srvVars>>

HeaderMarshalBinary == codec = "Header" /\ MarshalStep("Header")

HeaderUnmarshalBinary == codec = "Header" /\ UnmarshalStep("Header")

ATAArgMarshalBinary == codec = "ATAArg" /\ MarshalStep("ATAArg")

ATAArgUnmarshalBinary == codec = "ATAArg" /\ UnmarshalStep("ATAArg")

ConfigArgMarshalBinary == codec = "ConfigArg" /\ MarshalStep("ConfigArg")

ConfigArgUnmarshalBinary == codec = "ConfigArg" /\ UnmarshalStep("ConfigArg")

MACMaskArgMarshalBinary == codec = "MACMaskArg" /\ MarshalStep("MACMaskArg")

MACMaskArgUnmarshalBinary == codec = "MACMaskArg" /\ UnmarshalStep("MACMaskArg")

ReserveReleaseArgMarshalBinary == codec = "ReserveReleaseArg" /\ MarshalStep("ReserveReleaseArg")

ReserveReleaseArgUnmarshalBinary == codec = "ReserveReleaseArg" /\ UnmarshalStep("ReserveReleaseArg")

\* Fuzz(data): 0 when the Header does not decode, 1 when it decodes and
\* encodes, and a panic when it decodes and does not encode.
Fuzz ==
    /\ codec = "Fuzz"
    /\ ret = "none"
    /\ LET u == UnmarshalHeader(inB)
           m == MarshalHeader(u.v)
       IN  /\ dec' = [done |-> TRUE, err |-> u.err, v |-> u.v]
           /\ enc' = IF u.err # Nil THEN NotEncoded
                     ELSE [done |-> TRUE, err |-> m.err, b |-> m.b]
           /\ ret' = IF u.err # Nil THEN "0"
                     ELSE IF m.err # Nil THEN "panic"
                     ELSE "1"
    /\ UNCHANGED <<codec, first, inB, inV,
                 ataVars, lbaVars, diskVars, srvVars>>

Next ==
    \/ Fuzz
    \/ HeaderMarshalBinary
    \/ HeaderUnmarshalBinary
    \/ ATAArgMarshalBinary
    \/ ATAArgUnmarshalBinary
    \/ ConfigArgMarshalBinary
    \/ ConfigArgUnmarshalBinary
    \/ MACMaskArgMarshalBinary
    \/ MACMaskArgUnmarshalBinary
    \/ ReserveReleaseArgMarshalBinary
    \/ ReserveReleaseArgUnmarshalBinary

Spec == Init /\ [][Next]_vars

(***************************************************************************)
(* The ATA handler.  ServeATA runs up to each call it makes on the backing *)
(* store rs (Seek, Read, Write, Identify) or on the response sender w      *)
(* (Send); the call and the code after it, up to the next call or the      *)
(* return, are one step, and what the call returns is the step's choice.   *)
(* An int64 is its 8 bytes, least significant first.                       *)
(***************************************************************************)
ErrInvalidATARequest == "ErrInvalidATARequest"

ErrNotImplemented == "ErrNotImplemented"

\* The sentinel of an aborted ATA command.
errATAAbort == "errATAAbort"

\* An error of the backing store (the tests' errFoo).
errFoo == "errFoo"

\* An error of the response sender.
errSend == "errSend"

ATAErrAbort == 4

ATACmdStatusErrStatus == 1

ATACmdStatusReadyStatus == 64

ATACmdStatusCheckPower == 229

ATACmdStatusFlush == 231

ATACmdStatusIdentify == 236

ATACmdStatusRead28Bit == 32

ATACmdStatusRead48Bit == 36

ATACmdStatusWrite28Bit == 48

ATACmdStatusWrite48Bit == 52

sectorSize == 512

\* The 28-bit mask taken for a mask of 32 bits.
calculateLBA_Mask32(rlba, is48Bit) ==
    IF is48Bit THEN rlba \o <<0, 0>>
    ELSE <<rlba[1], rlba[2], rlba[3], rlba[4], 0, 0, 0, 0>>

\* calculateLBA(rlba, is48Bit): the 6 bytes read as a little-endian uint64,
\* masked to 48 bits or to 28 bits.
calculateLBA(rlba, is48Bit) ==
    IF is48Bit THEN rlba \o <<0, 0>>
    ELSE <<rlba[1], rlba[2], rlba[3], rlba[4] % 16, 0, 0, 0, 0>>

\* The multiplication a byte at a time, without the bit carried from the
\* byte below.
TimesSectorSize_NoCarry(x) ==
    [k \in 1..8 |-> IF k = 1 THEN 0 ELSE (x[k - 1] * 2) % 256]

\* x * sectorSize in int64: 512 is 2^9, one byte and one bit to the left.
TimesSectorSize(x) ==
    [k \in 1..8 |->
        IF k = 1 THEN 0
        ELSE ((x[k - 1] * 2) % 256) + (IF k >= 3 THEN x[k - 2] \div 128 ELSE 0)]

\* The masking decided by the opcode instead of the flag.
ataOffset_ByOpcode(r) ==
    TimesSectorSize(calculateLBA(r.LBA,
        r.CmdStatus \in {ATACmdStatusRead48Bit, ATACmdStatusWrite48Bit}))

\* offset := calculateLBA(r.LBA, r.FlagLBA48Extended) * sectorSize
ataOffset(r) == TimesSectorSize(calculateLBA(r.LBA, r.FlagLBA48Extended))

\* &ATAArg{CmdStatus: ATACmdStatusErrStatus, ErrFeature: ATAErrAbort}
AbortArg ==
    [ZeroATAArg EXCEPT !.CmdStatus = ATACmdStatusErrStatus,
                       !.ErrFeature = ATAErrAbort]

\* The reply without its sector count.
PowerArg_NoSectorCount ==
    [ZeroATAArg EXCEPT !.CmdStatus = ATACmdStatusReadyStatus]

\* &ATAArg{SectorCount: 0xff, CmdStatus: ATACmdStatusReadyStatus}
PowerArg ==
    [ZeroATAArg EXCEPT !.SectorCount = 255,
                       !.CmdStatus = ATACmdStatusReadyStatus]

\* &ATAArg{CmdStatus: ATACmdStatusReadyStatus, Data: d}
ReadyArg(d) ==
    [ZeroATAArg EXCEPT !.CmdStatus = ATACmdStatusReadyStatus, !.Data = d]

\* A call made on rs, as ops records it: what was passed (offset, len, p)
\* and what came back (n, id, err).
Op(name, offset, len, p, n, id, err) ==
    [op |-> name, offset |-> offset, len |-> len, p |-> p, n |-> n, id |-> id,
     err |-> err]

\* What ataIdentify, ataRead or ataWrite does next: a call on rs, or its
\* return of (warg, err).
Calls(c) == [call |-> c, warg |-> NilArg, err |-> Nil]

Returns(a, e) == [call |-> "none", warg |-> a, err |-> e]

\* The capability looked for before the sector count.
ataIdentifyBegin_CapabilityFirst(r, store) ==
    IF r.CmdStatus # ATACmdStatusIdentify THEN Returns(NilArg, errATAAbort)
    ELSE IF ~store.identifier THEN Returns(NilArg, ErrNotImplemented)
    ELSE IF r.SectorCount # 1 THEN Returns(NilArg, errATAAbort)
    ELSE Calls("identify")

\* ataIdentify, up to ident.Identify().
ataIdentifyBegin(r, store) ==
    IF r.CmdStatus # ATACmdStatusIdentify THEN Returns(NilArg, errATAAbort)
    ELSE IF r.SectorCount # 1 THEN Returns(NilArg, errATAAbort)
    ELSE IF ~store.identifier THEN Returns(NilArg, ErrNotImplemented)
    ELSE Calls("identify")

\* ataIdentify, from the return of ident.Identify().
ataIdentifyEnd(id, e) ==
    IF e # Nil THEN Returns(NilArg, e) ELSE Returns(ReadyArg(id), Nil)

\* ataRead, up to rs.Seek().
ataReadBegin(r) ==
    IF r.CmdStatus # ATACmdStatusRead28Bit /\ r.CmdStatus # ATACmdStatusRead48Bit
    THEN Returns(NilArg, errATAAbort)
    ELSE IF r.FlagWrite THEN Returns(NilArg, errATAAbort)
    ELSE Calls("seek")

\* ataRead, from the return of rs.Read(b).
ataReadEnd(r, b, n, e) ==
    IF e # Nil THEN Returns(NilArg, e)
    ELSE IF n \div sectorSize # r.SectorCount THEN Returns(NilArg, errATAAbort)
    ELSE Returns(ReadyArg(b), Nil)

\* ataWrite, up to rs.Seek().
ataWriteBegin(r, store) ==
    IF r.CmdStatus # ATACmdStatusWrite28Bit /\ r.CmdStatus # ATACmdStatusWrite48Bit
    THEN Returns(NilArg, errATAAbort)
    ELSE IF ~r.FlagWrite THEN Returns(NilArg, errATAAbort)
    ELSE IF Len(r.Data) \div sectorSize # r.SectorCount
    THEN Returns(NilArg, errATAAbort)
    ELSE IF ~store.writer THEN Returns(NilArg, errATAAbort)
    ELSE Calls("seek")

\* ataWrite, from the return of rws.Write(r.Data).
ataWriteEnd(r, n, e) ==
    IF e # Nil THEN Returns(NilArg, e)
    ELSE IF n \div sectorSize # r.SectorCount THEN Returns(NilArg, errATAAbort)
    ELSE Returns(ReadyArg(<< >>), Nil)

\* Every error, of the backing store too, answered with the abort reply.
ServeATAReply_AbortAll(a, e) ==
    /\ pc' = "send"
    /\ out' = out
    /\ warg' = IF e # Nil
               THEN [ZeroATAArg EXCEPT !.CmdStatus = 1, !.ErrFeature = 4]
               ELSE a
    /\ UNCHANGED <<req, rs, sent>>

\* ServeATA from "Return non-abort errors" on: the error is returned, or the
\* reply (the abort reply for errATAAbort) is about to be sent.
ServeATAReply(a, e) ==
    /\ IF e # Nil /\ e # errATAAbort
       THEN /\ pc' = "done"
            /\ out' = [n |-> 0, err |-> e]
            /\ warg' = a
       ELSE /\ pc' = "send"
            /\ out' = out
            /\ warg' = IF e = errATAAbort THEN AbortArg ELSE a
    /\ UNCHANGED <<req, rs, sent>>

\* What ataIdentify, ataRead or ataWrite does next, taken up by ServeATA.
ServeATAStep(step) ==
    IF step.call # "none"
    THEN /\ pc' = step.call
         /\ UNCHANGED <<req, rs, warg, sent, out>>
    ELSE ServeATAReply(step.warg, step.err)

\* ServeATA(w, r, rs), up to its first call on rs or w.
ServeATA ==
    /\ pc = "call"
    /\ ops' = ops
    /\ UNCHANGED <<codecVars, lbaVars, diskVars, srvVars>>
    /\ IF req.Command # CommandIssueATACommand \/ req.Arg.type # "ATAArg"
       THEN /\ pc' = "done"
            /\ out' = [n |-> 0, err |-> ErrInvalidATARequest]
            /\ UNCHANGED <<req, rs, warg, sent>>
       ELSE IF req.Arg.CmdStatus \in {ATACmdStatusCheckPower, ATACmdStatusFlush}
       THEN /\ pc' = "send"
            /\ warg' = PowerArg
            /\ UNCHANGED <<req, rs, sent, out>>
       ELSE ServeATAStep(
                CASE req.Arg.CmdStatus = ATACmdStatusIdentify ->
                         ataIdentifyBegin(req.Arg, rs)
                  [] req.Arg.CmdStatus \in {ATACmdStatusRead28Bit,
                                            ATACmdStatusRead48Bit} ->
                         ataReadBegin(req.Arg)
                  [] req.Arg.CmdStatus \in {ATACmdStatusWrite28Bit,
                                            ATACmdStatusWrite48Bit} ->
                         ataWriteBegin(req.Arg, rs)
                  [] OTHER -> Returns(NilArg, errATAAbort))

\* The request is one of the read opcodes.
IsRead == req.Arg.CmdStatus \in {ATACmdStatusRead28Bit, ATACmdStatusRead48Bit}

\* rs.Seek(offset, os.SEEK_SET) of ataRead and ataWrite; a method called on
\* a nil io.ReadSeeker panics.
Seek ==
    /\ pc = "seek"
    /\ UNCHANGED <<codecVars, lbaVars, diskVars, srvVars>>
    /\ IF ~rs.present
       THEN /\ pc' = "panic"
            /\ UNCHANGED <<req, rs, warg, ops, sent, out>>
       ELSE \E e \in {Nil, errFoo} :
               /\ ops' = Append(ops, Op("Seek", ataOffset(req.Arg), 0, << >>,
                                         0, << >>, e))
               /\ IF e # Nil THEN ServeATAStep(Returns(NilArg, e))
                  ELSE ServeATAStep(Calls(IF IsRead THEN "read" ELSE "write"))

\* The numbers of bytes a Read or a Write of len bytes reports.
Counts(len) ==
    {0, len - 1, len, sectorSize * (len \div sectorSize), len - sectorSize}
        \cap (0..len)

\* n, err := rs.Read(b) on b := make([]byte, int(r.SectorCount)*sectorSize),
\* the store filling the first n bytes of b.
Read ==
    /\ pc = "read"
    /\ UNCHANGED <<codecVars, lbaVars, diskVars, srvVars>>
    /\ LET len == req.Arg.SectorCount * sectorSize
       IN  \E n \in Counts(len), e \in {Nil, errFoo} :
              /\ ops' = Append(ops, Op("Read", << >>, len, << >>, n, << >>, e))
              /\ ServeATAStep(ataReadEnd(req.Arg,
                     CopyAt(MakeBytes(len), 0, Pattern(n, 1)), n, e))

\* n, err := rws.Write(r.Data)
Write ==
    /\ pc = "write"
    /\ UNCHANGED <<codecVars, lbaVars, diskVars, srvVars>>
    /\ \E n \in Counts(Len(req.Arg.Data)), e \in {Nil, errFoo} :
          /\ ops' = Append(ops, Op("Write", << >>, Len(req.Arg.Data),
                                    req.Arg.Data, n, << >>, e))
          /\ ServeATAStep(ataWriteEnd(req.Arg, n, e))

\* The 512-byte identities of the stores.
Identities == {MakeBytes(sectorSize), Pattern(sectorSize, 3)}

\* id, err := ident.Identify()
Identify ==
    /\ pc = "identify"
    /\ UNCHANGED <<codecVars, lbaVars, diskVars, srvVars>>
    /\ \E id \in Identities, e \in {Nil, errFoo} :
          /\ ops' = Append(ops, Op("Identify", << >>, 0, << >>, 0, id, e))
          /\ ServeATAStep(ataIdentifyEnd(id, e))

\* What w.Send reports: bytes sent, or an error.
SendResults ==
    {[n |-> 0, err |-> Nil], [n |-> 60, err |-> Nil], [n |-> 0, err |-> errSend]}

\* The Send of a sender that ServeATA calls and calls again.
Send_Again ==
    /\ pc = "send"
    /\ UNCHANGED <<codecVars, lbaVars, diskVars, srvVars>>
    /\ \E res \in SendResults :
          /\ sent' = Append(sent, [h |-> [ZeroHeader EXCEPT !.Arg = warg],
                                   n |-> res.n, err |-> res.err])
          /\ out' = [n |-> res.n, err |-> res.err]
          /\ pc' = IF Len(sent) = 0 THEN "send" ELSE "done"
    /\ UNCHANGED <<req, rs, warg, ops>>

\* return w.Send(&Header{Arg: warg}): ServeATA returns what Send returns.
Send ==
    /\ pc = "send"
    /\ UNCHANGED <<codecVars, lbaVars, diskVars, srvVars>>
    /\ \E res \in SendResults :
          /\ sent' = Append(sent, [h |-> [ZeroHeader EXCEPT !.Arg = warg],
                                   n |-> res.n, err |-> res.err])
          /\ out' = [n |-> res.n, err |-> res.err]
          /\ pc' = "done"
    /\ UNCHANGED <<req, rs, warg, ops>>

(***************************************************************************)
(* The calls of ServeATA that are checked                                  *)
(***************************************************************************)
\* The largest sector count of the reads and of the data of the writes.
MaxSectors == 2

ATAOpcodes ==
    {ATACmdStatusCheckPower, ATACmdStatusFlush, ATACmdStatusIdentify,
     ATACmdStatusRead28Bit, ATACmdStatusRead48Bit,
     ATACmdStatusWrite28Bit, ATACmdStatusWrite48Bit, 0, 255}

\* Data of no byte, and of a byte less than, exactly, and a byte more than
\* each number of sectors.
ATADataLens ==
    {0} \cup UNION {{sectorSize * k - 1, sectorSize * k, sectorSize * k + 1} :
                      k \in 1..MaxSectors}

ATASectorCounts == (0..MaxSectors) \cup {255}

\* The addresses of Test_calculateLBA, and one with a different byte at each
\* place.
ATALBAs ==
    {<<0, 0, 0, 0, 0, 0>>, <<255, 255, 255, 255, 255, 255>>,
     <<1, 130, 3, 244, 5, 6>>}

\* The ATAArgs of the requests; a read (which allocates its buffer) of at
\* most MaxSectors sectors.  Data of every length goes with the write
\* opcodes, and every address with the read and write opcodes.
ATARequestArgs ==
    {a \in {[ZeroATAArg EXCEPT !.CmdStatus = c, !.FlagWrite = fw,
                               !.FlagLBA48Extended = f48,
                               !.SectorCount = sc, !.LBA = lba,
                               !.Data = Pattern(dl, 5)] :
               c \in ATAOpcodes, fw \in BOOLEAN, f48 \in BOOLEAN,
               sc \in ATASectorCounts, lba \in ATALBAs, dl \in ATADataLens} :
        /\ (a.CmdStatus \in {ATACmdStatusRead28Bit, ATACmdStatusRead48Bit}
            /\ ~a.FlagWrite) => a.SectorCount <= MaxSectors
        /\ a.CmdStatus \notin {ATACmdStatusWrite28Bit, ATACmdStatusWrite48Bit}
              => Len(a.Data) \in {0, sectorSize + 1}
        /\ a.CmdStatus \notin {ATACmdStatusRead28Bit, ATACmdStatusRead48Bit,
                                ATACmdStatusWrite28Bit, ATACmdStatusWrite48Bit}
              => a.LBA[2] \in {0, 255}}

\* The requests: ATA commands, and Headers that are not ATA requests.
ATARequests ==
       {[ZeroHeader EXCEPT !.Version = 1, !.Command = CommandIssueATACommand,
                           !.Arg = a] : a \in ATARequestArgs}
  \cup {[ZeroHeader EXCEPT !.Version = 1, !.Command = c, !.Arg = a] :
           c \in {CommandIssueATACommand, CommandQueryConfigInformation},
           a \in {NilArg, ZeroConfigArg,
                  [ZeroATAArg EXCEPT !.CmdStatus = ATACmdStatusCheckPower]}}

\* The backing stores: none, and an io.ReadSeeker that is or is not an
\* io.Writer and an Identifier.
Stores ==
    {NoStore} \cup {[present |-> TRUE, writer |-> w, identifier |-> i] :
                       w \in BOOLEAN, i \in BOOLEAN}

ATAInit ==
    /\ codec = "none"
    /\ first = "none"
    /\ inB = << >>
    /\ inV = NilArg
    /\ dec = NotDecoded
    /\ enc = NotEncoded
    /\ ret = "none"
    /\ pc = "call"
    /\ req \in ATARequests
    /\ rs \in Stores
    /\ warg = NilArg
    /\ ops = << >>
    /\ sent = << >>
    /\ out = NoResult
    /\ Unused("lba")
    /\ Unused("disk")
    /\ Unused("server")

ATANext ==
    \/ ServeATA
    \/ Seek
    \/ Read
    \/ Write
    \/ Identify
    \/ Send

ATASpec == ATAInit /\ [][ATANext]_vars

(***************************************************************************)
(* calculateLBA on its own                                                 *)
(***************************************************************************)
\* The 6-byte addresses: every one made of the bytes on each side of the
\* 28-bit mask's last nibble and at the ends of the range, and those of
\* ATALBAs.
LBAInputs ==
    LET digits == {0, 15, 16, 255}
    IN  {<<a, b, c, d, e, f>> : a \in digits, b \in digits, c \in digits,
                                d \in digits, e \in digits, f \in digits}
            \cup ATALBAs

LBAInit ==
    /\ codec = "none"
    /\ first = "none"
    /\ inB = << >>
    /\ inV = NilArg
    /\ dec = NotDecoded
    /\ enc = NotEncoded
    /\ ret = "none"
    /\ ATAIdle
    /\ Unused("disk")
    /\ Unused("server")
    /\ argLBA \in LBAInputs
    /\ arg48Bit \in BOOLEAN
    /\ retLBA = << >>

\* lba := calculateLBA(rlba, is48Bit)
CalculateLBA ==
    /\ retLBA = << >>
    /\ retLBA' = calculateLBA(argLBA, arg48Bit)
    /\ UNCHANGED <<argLBA, arg48Bit, codecVars, ataVars, diskVars, srvVars>>

LBANext == CalculateLBA

LBASpec == LBAInit /\ [][LBANext]_vars

(***************************************************************************)
(* The Server.  Serve reads frames from the packet connection one after    *)
(* the other and serves each before it reads the next; the advertiser runs *)
(* beside it.  A frame is what ethernet.Frame holds (ok: the frame's bytes *)
(* decode); a frame read also carries the address it came from, Source.    *)
(* wire is the frame last written to the connection since the loop's turn  *)
(* began, and by what (Send or advertise); handled is the Request that the *)
(* turn handed to the Handler (r), whether the handler called Send, and   *)
(* the Header it passed (h).                                               *)
(***************************************************************************)
EtherType == 34978

BroadcastMajor == 65535

BroadcastMinor == 255

\* The ConfigArg of ServeConfig and of advertise; uint16(len(s.Config)).
ServerConfigArg(s) ==
    [ZeroConfigArg EXCEPT !.BufferCount = s.BufferCount,
                          !.FirmwareVersion = s.FirmwareVersion,
                          !.SectorCount = s.SectorCount,
                          !.Version = Version,
                          !.Command = 0,
                          !.StringLength = Len(s.Config) % 65536,
                          !.String = s.Config]

\* s.send(h, source, target): the Header is marshalled, put in a frame and
\* written to the connection, WriteTo reporting res.  No Header sent here
\* has an argument that makes MarshalBinary panic.
send(h, source, target, res) ==
    LET hb == MarshalHeader(h)
    IN  IF hb.err # Nil THEN [n |-> 0, err |-> hb.err, f |-> [ok |-> FALSE]]
        ELSE IF res.err # Nil
        THEN [n |-> res.n, err |-> res.err, f |-> [ok |-> FALSE]]
        ELSE [n |-> res.n, err |-> Nil,
              f |-> [ok |-> TRUE, Destination |-> target, Source |-> source,
                     EtherType |-> EtherType, Payload |-> hb.b]]

\* A Send that leaves the tag as the handler set it.
responseSend_OwnTag(s, r, h, res) ==
    send([h EXCEPT !.Version = Version, !.FlagResponse = TRUE,
                   !.Major = s.Major, !.Minor = s.Minor,
                   !.Command = r.Header.Command],
         s.HardwareAddr, r.Source, res)

\* w.Send(h) of the response made by conn.serve for the Request r.
responseSend(s, r, h, res) ==
    send([h EXCEPT !.Version = Version, !.FlagResponse = TRUE,
                   !.Major = s.Major, !.Minor = s.Minor,
                   !.Command = r.Header.Command, !.Tag = r.Header.Tag],
         s.HardwareAddr, r.Source, res)

\* A filter in which a wildcard in one field stands for both fields.
connServe_EitherWildcard(s, f) ==
    IF ~f.ok \/ f.EtherType # EtherType THEN [pass |-> FALSE, h |-> ZeroHeader]
    ELSE LET u == UnmarshalHeader(f.Payload)
         IN  IF u.err # Nil \/ u.v.FlagResponse
             THEN [pass |-> FALSE, h |-> u.v]
             ELSE IF u.v.Major = BroadcastMajor \/ u.v.Minor = BroadcastMinor
             THEN [pass |-> TRUE, h |-> u.v]
             ELSE [pass |-> u.v.Major = s.Major /\ u.v.Minor = s.Minor,
                   h |-> u.v]

\* A filter that takes frames of every EtherType.
connServe_AnyEtherType(s, f) ==
    IF ~f.ok THEN [pass |-> FALSE, h |-> ZeroHeader]
    ELSE LET u == UnmarshalHeader(f.Payload)
         IN  IF u.err # Nil THEN [pass |-> FALSE, h |-> u.v]
             ELSE IF u.v.FlagResponse THEN [pass |-> FALSE, h |-> u.v]
             ELSE IF u.v.Major # BroadcastMajor /\ u.v.Major # s.Major
             THEN [pass |-> FALSE, h |-> u.v]
             ELSE IF u.v.Minor # BroadcastMinor /\ u.v.Minor # s.Minor
             THEN [pass |-> FALSE, h |-> u.v]
             ELSE [pass |-> TRUE, h |-> u.v]

\* conn.serve, up to "Set up response": pass when the frame is a request to
\* this server, with the Header h decoded from it.
connServe(s, f) ==
    IF ~f.ok \/ f.EtherType # EtherType THEN [pass |-> FALSE, h |-> ZeroHeader]
    ELSE LET u == UnmarshalHeader(f.Payload)
         IN  IF u.err # Nil THEN [pass |-> FALSE, h |-> u.v]
             ELSE IF u.v.FlagResponse THEN [pass |-> FALSE, h |-> u.v]
             ELSE IF u.v.Major # BroadcastMajor /\ u.v.Major # s.Major
             THEN [pass |-> FALSE, h |-> u.v]
             ELSE IF u.v.Minor # BroadcastMinor /\ u.v.Minor # s.Minor
             THEN [pass |-> FALSE, h |-> u.v]
             ELSE [pass |-> TRUE, h |-> u.v]

\* Nothing written to the connection.
NoWrite == [by |-> "none", f |-> [ok |-> FALSE]]

\* No Request handed to the Handler.
NotHandled ==
    [called |-> FALSE,
     r |-> [Source |-> << >>, Target |-> << >>, Header |-> ZeroHeader],
     send |-> FALSE, h |-> ZeroHeader]

\* The Headers a HandlerFunc passes to Send: with and without an error, with
\* identity fields of its own, and without an argument.
HandlerHeaders ==
    {[ZeroHeader EXCEPT !.Arg = ZeroATAArg],
     [ZeroHeader EXCEPT !.FlagError = TRUE, !.Error = 3, !.Arg = AbortArg],
     [ZeroHeader EXCEPT !.Version = 9, !.Major = 7, !.Minor = 9,
                        !.Command = CommandMACMaskList, !.Tag = <<9, 9, 9, 9>>,
                        !.Error = 5, !.Arg = ZeroConfigArg],
     ZeroHeader}

\* The frames on the segment: requests to every pair of a major and a
\* minor, requests with every argument to the wildcard pair, and frames
\* that are no request.
Frames ==
    LET client == <<2, 0, 0, 0, 0, 9>>
        other == <<2, 0, 0, 0, 0, 7>>
        in(src, et, b) ==
            [ok |-> TRUE, Destination |-> <<255, 255, 255, 255, 255, 255>>,
             Source |-> src,
             EtherType |-> et, Payload |-> b]
        hdr(mj, mn, t, a) ==
            [ZeroHeader EXCEPT !.Version = Version, !.Major = mj, !.Minor = mn,
                               !.Command = CommandFor(a), !.Tag = t, !.Arg = a]
        bytes(h) == MarshalHeader(h).b
        cfg(c, str) ==
            [ZeroConfigArg EXCEPT !.Version = Version, !.Command = c,
                                  !.StringLength = Len(str), !.String = str]
        ata(c, fw, sc, d) ==
            [ZeroATAArg EXCEPT !.CmdStatus = c, !.FlagWrite = fw,
                               !.SectorCount = sc, !.Data = d]
        cfgs == {cfg(0, << >>), cfg(3, <<97>>)}
                  \cup {cfg(1, x) : x \in {<< >>, <<97>>, <<97, 98>>}}
                  \cup {cfg(2, x) : x \in {<< >>, <<97>>, <<98>>, <<97, 98>>,
                                           <<97, 98, 99>>}}
        atas == {ata(ATACmdStatusCheckPower, FALSE, 0, << >>),
                 ata(ATACmdStatusIdentify, FALSE, 1, << >>),
                 ata(ATACmdStatusRead28Bit, FALSE, 1, << >>),
                 ata(ATACmdStatusWrite28Bit, TRUE, 1, Pattern(sectorSize, 5)),
                 ata(ATACmdStatusWrite28Bit, TRUE, 0, Pattern(sectorSize - 1, 5)),
                 ata(0, FALSE, 0, << >>)}
        ping == hdr(BroadcastMajor, BroadcastMinor, <<1, 2, 3, 4>>,
                    ata(ATACmdStatusCheckPower, FALSE, 0, << >>))
    IN     {in(client, EtherType, bytes(hdr(mj, mn, <<1, 2, 3, 4>>, a))) :
               mj \in {0, 15, BroadcastMajor}, mn \in {0, 1, BroadcastMinor},
               a \in {cfg(0, << >>)}}
      \cup {in(client, EtherType,
               bytes(hdr(BroadcastMajor, BroadcastMinor, <<1, 2, 3, 4>>, a))) :
               a \in cfgs \cup atas \cup {ZeroMACMaskArg}}
      \cup {in(other, EtherType, bytes([ping EXCEPT !.Tag = <<0, 0, 0, 0>>])),
            in(client, EtherType, bytes([ping EXCEPT !.FlagResponse = TRUE])),
            in(client, 2048, bytes(ping)),
            in(client, EtherType, <<16>>),
            in(client, EtherType, CopyAt(bytes(ping), 0, <<32>>)),
            in(client, EtherType, CopyAt(bytes(ping), 5, <<4>>)),
            in(client, EtherType, Slice(bytes(ping), 0, headerLen + 1)),
            [in(client, EtherType, << >>) EXCEPT !.ok = FALSE]}

\* The Servers: the one of the command, the same with a config string, with
\* a config string too long to marshal, without a Handler and with a
\* HandlerFunc, and the one ListenAndServe(iface, handler) makes.
Servers ==
    LET main == [Major |-> 15, Minor |-> 1, BufferCount |-> 16,
                 FirmwareVersion |-> 1, SectorCount |-> 16, Config |-> << >>,
                 Handler |-> "Handler", AdvertiseInterval |-> 60,
                 HardwareAddr |-> <<2, 0, 0, 0, 0, 1>>]
    IN  {main,
         [main EXCEPT !.Config = <<97, 98>>],
         [main EXCEPT !.Config = Zeros(MaxStringLength + 1)],
         [main EXCEPT !.Handler = "nil"],
         [main EXCEPT !.Handler = "HandlerFunc"],
         [main EXCEPT !.Major = 0, !.Minor = 0, !.BufferCount = 0,
                      !.FirmwareVersion = 0, !.SectorCount = 0,
                      !.AdvertiseInterval = 0]}

\* Serve has been called: the advertiser is started and the loop is about
\* to read; the store of the Handler is the block device.
ServerInit ==
    /\ codec = "none"
    /\ first = "none"
    /\ inB = << >>
    /\ inV = NilArg
    /\ dec = NotDecoded
    /\ enc = NotEncoded
    /\ ret = "none"
    /\ Unused("lba")
    /\ Unused("disk")
    /\ pc = "idle"
    /\ req = ZeroHeader
    /\ rs = [present |-> TRUE, writer |-> TRUE, identifier |-> TRUE]
    /\ warg = NilArg
    /\ ops = << >>
    /\ sent = << >>
    /\ out = NoResult
    /\ srv \in Servers
    /\ loop = [pc |-> "ReadFrom", frame |-> [ok |-> FALSE], err |-> Nil]
    /\ adv = "advertiseLoop"
    /\ wire = NoWrite
    /\ handled = NotHandled

\* c.serve() on the frame f read: the frame is dropped, or the Request is
\* handed to the Handler: none, a HandlerFunc that sends a Header or
\* nothing, or the Handler of the command, whose ServeAoE answers a config
\* query by ServeConfig, calls ServeATA on the block device for an ATA
\* command, and does nothing for the others.
serve(f) ==
    LET c == connServe(srv, f)
        r == [Source |-> f.Source, Target |-> srv.HardwareAddr, Header |-> c.h]
        next == [pc |-> "served", frame |-> f, err |-> Nil]
        gives(sends, h) == [called |-> TRUE, r |-> r, send |-> sends, h |-> h]
    IN  IF ~c.pass \/ srv.Handler = "nil"
        THEN /\ loop' = next
             /\ handled' = NotHandled
             /\ wire' = NoWrite
             /\ UNCHANGED <<pc, req>>
        ELSE IF srv.Handler = "HandlerFunc"
        THEN \/ /\ loop' = next
                /\ handled' = gives(FALSE, ZeroHeader)
                /\ wire' = NoWrite
                /\ UNCHANGED <<pc, req>>
             \/ \E h \in HandlerHeaders, res \in SendResults :
                   /\ loop' = next
                   /\ handled' = gives(TRUE, h)
                   /\ LET x == responseSend(srv, r, h, res)
                      IN  wire' = IF x.err # Nil THEN NoWrite
                                  ELSE [by |-> "Send", f |-> x.f]
                   /\ UNCHANGED <<pc, req>>
        ELSE IF c.h.Command = CommandQueryConfigInformation
        THEN \E res \in SendResults :
                LET h == [ZeroHeader EXCEPT !.Arg = ServerConfigArg(srv)]
                IN  /\ loop' = next
                    /\ handled' = gives(TRUE, h)
                    /\ LET x == responseSend(srv, r, h, res)
                       IN  wire' = IF x.err # Nil THEN NoWrite
                                   ELSE [by |-> "Send", f |-> x.f]
                    /\ UNCHANGED <<pc, req>>
        ELSE IF c.h.Command = CommandIssueATACommand
        THEN /\ loop' = [next EXCEPT !.pc = "ServeAoE"]
             /\ handled' = gives(FALSE, ZeroHeader)
             /\ wire' = NoWrite
             /\ req' = c.h
             /\ pc' = "call"
        ELSE /\ loop' = next
             /\ handled' = gives(FALSE, ZeroHeader)
             /\ wire' = NoWrite
             /\ UNCHANGED <<pc, req>>

\* A loop that serves each frame in a goroutine of its own and reads on.
ServeReadFrom_Goroutine ==
    /\ loop.pc \in {"ReadFrom", "ServeAoE"}
    /\ UNCHANGED <<codecVars, lbaVars, diskVars, srv, adv, rs, warg, ops, sent, out>>
    /\ \E f \in Frames : serve(f)

\* One turn of the loop of Serve: ReadFrom reports an error and Serve
\* returns (nil for io.EOF), or it reports a frame, and
\* s.newConn(...).serve() runs before the next ReadFrom.
ServeReadFrom ==
    /\ loop.pc = "ReadFrom"
    /\ UNCHANGED <<codecVars, lbaVars, diskVars, srv, adv, rs, warg, ops, sent, out>>
    /\ \/ \E e \in {"io.EOF", "errReadFrom"} :
             /\ loop' = [loop EXCEPT !.pc = "returned",
                                     !.err = IF e = "io.EOF" THEN Nil ELSE e]
             /\ UNCHANGED <<wire, handled, pc, req>>
       \/ \E f \in Frames : serve(f)

\* return w.Send(&Header{Arg: warg}) of ServeATA, w being the response.
ResponseSend ==
    /\ pc = "send"
    /\ loop.pc = "ServeAoE"
    /\ \E res \in SendResults :
          LET h == [ZeroHeader EXCEPT !.Arg = warg]
              x == responseSend(srv, handled.r, h, res)
          IN  /\ wire' = IF x.err # Nil THEN wire
                          ELSE [by |-> "Send", f |-> x.f]
              /\ handled' = [handled EXCEPT !.send = TRUE, !.h = h]
              /\ sent' = Append(sent, [h |-> h, n |-> x.n, err |-> x.err])
              /\ out' = [n |-> x.n, err |-> x.err]
              /\ pc' = "done"
    /\ UNCHANGED <<codecVars, lbaVars, diskVars, srv, loop, adv, req, rs, warg, ops>>

\* serve() has returned, after ServeATA for an ATA command: the loop goes
\* on to its next ReadFrom.
ServeNext ==
    /\ \/ loop.pc = "served"
       \/ loop.pc = "ServeAoE" /\ pc = "done"
    /\ loop' = [pc |-> "ReadFrom", frame |-> [ok |-> FALSE], err |-> Nil]
    /\ handled' = NotHandled
    /\ wire' = NoWrite
    /\ pc' = "idle"
    /\ req' = ZeroHeader
    /\ warg' = NilArg
    /\ ops' = << >>
    /\ sent' = << >>
    /\ out' = NoResult
    /\ UNCHANGED <<codecVars, lbaVars, diskVars, srv, adv, rs>>

\* go s.advertiseLoop(ctx), up to the loop: time.NewTicker panics on an
\* interval that is not positive, and the panic of a goroutine ends the
\* program.
AdvertiseLoop ==
    /\ adv = "advertiseLoop"
    /\ IF srv.AdvertiseInterval <= 0
       THEN /\ adv' = "panic"
            /\ loop' = [loop EXCEPT !.pc = "panic"]
            /\ pc' = "panic"
       ELSE /\ adv' = "advertise"
            /\ UNCHANGED <<loop, pc>>
    /\ UNCHANGED <<codecVars, lbaVars, diskVars, srv, wire, handled,
                   req, rs, warg, ops, sent, out>>

\* s.advertise(ethernet.Broadcast) of the loop, which returns on an error;
\* a connection that Serve has closed reports an error.
Advertise ==
    /\ adv = "advertise"
    /\ \E res \in SendResults :
          LET h == [ZeroHeader EXCEPT !.Version = Version,
                                      !.FlagResponse = TRUE,
                                      !.Major = srv.Major,
                                      !.Minor = srv.Minor,
                                      !.Command = CommandQueryConfigInformation,
                                      !.Arg = ServerConfigArg(srv)]
              x == send(h, srv.HardwareAddr,
                        <<255, 255, 255, 255, 255, 255>>, res)
          IN  /\ loop.pc = "returned" => res.err # Nil
              /\ wire' = IF x.err # Nil THEN wire
                          ELSE [by |-> "advertise", f |-> x.f]
              /\ adv' = IF x.err # Nil THEN "returned" ELSE "select"
    /\ UNCHANGED <<codecVars, lbaVars, diskVars, ataVars, srv, loop, handled>>

\* case <-tick.C
Tick ==
    /\ adv = "select"
    /\ adv' = "advertise"
    /\ UNCHANGED <<codecVars, lbaVars, diskVars, ataVars, srv, loop, wire, handled>>

\* case <-ctx.Done(), after the cancel() that Serve defers.
Done ==
    /\ adv = "select"
    /\ loop.pc = "returned"
    /\ adv' = "returned"
    /\ UNCHANGED <<codecVars, lbaVars, diskVars, ataVars, srv, loop, wire, handled>>

ServerNext ==
    \/ ServeReadFrom
    \/ ServeATA
    \/ Seek
    \/ Read
    \/ Write
    \/ Identify
    \/ ResponseSend
    \/ ServeNext
    \/ AdvertiseLoop
    \/ Advertise
    \/ Tick
    \/ Done

ServerSpec == ServerInit /\ [][ServerNext]_vars

(***************************************************************************)
(* ServeATA, one call after another, on a store that is a byte array       *)
(***************************************************************************)
\* The size of the byte array in sectors.
DiskSectors == 2

\* The block device of the command: an array of DiskSectors sectors with a
\* cursor, no request served yet.
DiskInit ==
    /\ codec = "none"
    /\ first = "none"
    /\ inB = << >>
    /\ inV = NilArg
    /\ dec = NotDecoded
    /\ enc = NotEncoded
    /\ ret = "none"
    /\ pc = "done"
    /\ req = ZeroHeader
    /\ rs = [present |-> TRUE, writer |-> TRUE, identifier |-> TRUE]
    /\ warg = NilArg
    /\ ops = << >>
    /\ sent = << >>
    /\ out = NoResult
    /\ Unused("lba")
    /\ disk = [data |-> Pattern(DiskSectors * sectorSize, 9), pos |-> Zeros(8)]
    /\ log = << >>
    /\ Unused("server")

\* Handler.ServeAoE, called for one request at a time: ServeATA has returned
\* and is called with the next request on the same block device.  log keeps
\* one write that was answered with the ready status and had data of
\* exactly sector_count sectors, for as long as no write request that
\* reached the store has sectors in common with it.
DiskServe ==
    /\ pc = "done"
    /\ LET lbas == {<<0, 0, 0, 0, 0, 0>>, <<1, 0, 0, 0, 0, 0>>,
                    <<1, 0, 0, 16, 0, 0>>}
           ata(c, fw, f48, sc, lba, d) ==
               [ZeroHeader EXCEPT
                   !.Version = 1, !.Command = CommandIssueATACommand,
                   !.Arg = [ZeroATAArg EXCEPT
                               !.CmdStatus = c, !.FlagWrite = fw,
                               !.FlagLBA48Extended = f48, !.SectorCount = sc,
                               !.LBA = lba, !.Data = d]]
           writes == {ata(ATACmdStatusWrite28Bit, TRUE, f48, sc, lba,
                          Pattern(sc * sectorSize, 5)) :
                         f48 \in BOOLEAN, sc \in 0..MaxSectors, lba \in lbas}
           reads == {ata(ATACmdStatusRead48Bit, FALSE, f48, sc, lba, << >>) :
                        f48 \in BOOLEAN, sc \in 0..MaxSectors, lba \in lbas}
           others == {ata(ATACmdStatusWrite28Bit, TRUE, FALSE, 1,
                          <<0, 0, 0, 0, 0, 0>>, Pattern(2 * sectorSize - 1, 7)),
                      ata(ATACmdStatusIdentify, FALSE, FALSE, 1,
                          <<0, 0, 0, 0, 0, 0>>, << >>),
                      ata(ATACmdStatusFlush, FALSE, FALSE, 0,
                          <<0, 0, 0, 0, 0, 0>>, << >>)}
           a == req.Arg
           isWrite == /\ req.Command = CommandIssueATACommand
                      /\ a.type = "ATAArg"
                      /\ \E i \in 1..Len(ops) : ops[i].op = "Write"
           sector(x) == calculateLBA(x.LBA, x.FlagLBA48Extended)
           small(x) == \A k \in 3..8 : sector(x)[k] = 0
           start(x) == sector(x)[1] + 256 * sector(x)[2]
           common(x, y) ==
               /\ x.SectorCount > 0 /\ y.SectorCount > 0
               /\ small(x) = small(y)
               /\ small(x) => /\ start(x) < start(y) + y.SectorCount
                              /\ start(y) < start(x) + x.SectorCount
               /\ ~small(x) => sector(x) = sector(y)
           ready == /\ Len(sent) = 1
                    /\ sent[1].h.Arg.type = "ATAArg"
                    /\ sent[1].h.Arg.CmdStatus = ATACmdStatusReadyStatus
           kept == IF log # << >> /\ isWrite /\ common(a, log[1])
                   THEN << >> ELSE log
       IN  /\ req' \in writes \cup reads \cup others
           /\ log' \in {kept} \cup
                 (IF isWrite /\ ready
                     /\ Len(a.Data) = a.SectorCount * sectorSize
                  THEN {<<a>>} ELSE {})
    /\ pc' = "call"
    /\ warg' = NilArg
    /\ ops' = << >>
    /\ sent' = << >>
    /\ out' = NoResult
    /\ UNCHANGED <<codecVars, lbaVars, srvVars, rs, disk>>

\* rs.Seek(offset, os.SEEK_SET) on the byte array: the cursor is at offset.
DiskSeek ==
    /\ pc = "seek"
    /\ disk' = [disk EXCEPT !.pos = ataOffset(req.Arg)]
    /\ ops' = Append(ops, Op("Seek", ataOffset(req.Arg), 0, << >>, 0, << >>,
                              Nil))
    /\ ServeATAStep(Calls(IF IsRead THEN "read" ELSE "write"))
    /\ UNCHANGED <<codecVars, lbaVars, srvVars, log>>

\* n, err := rs.Read(b) on the byte array: the bytes from the cursor to the
\* end of b or of the array, io.EOF for a cursor at or past the end, and
\* (0, nil) for a b of no byte, as a file reads.
DiskRead ==
    /\ pc = "read"
    /\ LET len == req.Arg.SectorCount * sectorSize
           size == Len(disk.data)
           inside == /\ \A k \in 4..8 : disk.pos[k] = 0
                     /\ disk.pos[1] + 256 * disk.pos[2]
                            + 65536 * disk.pos[3] < size
           at == disk.pos[1] + 256 * disk.pos[2] + 65536 * disk.pos[3]
           n == IF len = 0 \/ ~inside THEN 0 ELSE Min({len, size - at})
           e == IF len > 0 /\ n = 0 THEN "EOF" ELSE Nil
           to == at + n
           b == IF n = 0 THEN MakeBytes(len)
                ELSE CopyAt(MakeBytes(len), 0, SubSeq(disk.data, at + 1, to))
       IN  /\ disk' = IF n = 0 THEN disk
                      ELSE [disk EXCEPT !.pos =
                               <<to % 256, (to \div 256) % 256,
                                 (to \div 65536) % 256, 0, 0, 0, 0, 0>>]
           /\ ops' = Append(ops, Op("Read", << >>, len, << >>, n, << >>, e))
           /\ ServeATAStep(ataReadEnd(req.Arg, b, n, e))
    /\ UNCHANGED <<codecVars, lbaVars, srvVars, log>>

\* n, err := rws.Write(r.Data) on the byte array: the bytes of r.Data that
\* fit between the cursor and the end of the array take their places, and
\* the rest of them is an error (no space left on the device).
DiskWrite ==
    /\ pc = "write"
    /\ LET p == req.Arg.Data
           size == Len(disk.data)
           inside == /\ \A k \in 4..8 : disk.pos[k] = 0
                     /\ disk.pos[1] + 256 * disk.pos[2]
                            + 65536 * disk.pos[3] < size
           at == disk.pos[1] + 256 * disk.pos[2] + 65536 * disk.pos[3]
           n == IF Len(p) = 0 \/ ~inside THEN 0 ELSE Min({Len(p), size - at})
           e == IF n < Len(p) THEN "ENOSPC" ELSE Nil
           to == at + n
       IN  /\ disk' = IF n = 0 THEN disk
                      ELSE [data |-> CopyAt(disk.data, at, SubSeq(p, 1, n)),
                            pos |-> <<to % 256, (to \div 256) % 256,
                                      (to \div 65536) % 256, 0, 0, 0, 0, 0>>]
           /\ ops' = Append(ops, Op("Write", << >>, Len(p), p, n, << >>, e))
           /\ ServeATAStep(ataWriteEnd(req.Arg, n, e))
    /\ UNCHANGED <<codecVars, lbaVars, srvVars, log>>

DiskNext ==
    \/ DiskServe
    \/ ServeATA
    \/ DiskSeek
    \/ DiskRead
    \/ DiskWrite
    \/ Identify
    \/ Send

DiskSpec == DiskInit /\ [][DiskNext]_vars

(***************************************************************************)
(* Properties                                                              *)
(***************************************************************************)
\* C1. Fuzz stability: whenever Header decode succeeds on the input bytes,
\* encoding the decoded Header returns no error and does not panic.
C1_FuzzStability ==
    (codec = "Fuzz" /\ ret # "none" /\ dec.err = Nil)
        => (enc.done /\ enc.err = Nil /\ ret = "1")

\* An Arg that its own codec round-trips.
ArgRoundTrips(a) ==
    /\ a.type \in ArgCodecs
    /\ LET m == Marshal(a.type, a)
       IN  /\ m.err = Nil
           /\ LET u == Unmarshal(a.type, m.b)
              IN  u.err = Nil /\ u.v = a

\* A Header of version 1 whose Arg is the variant its Command selects and
\* round-trips.
ValidHeader(h) ==
    /\ h.Version = 1
    /\ h.Command \in 0..3
    /\ h.Arg.type = (CASE h.Command = 0 -> "ATAArg"
                       [] h.Command = 1 -> "ConfigArg"
                       [] h.Command = 2 -> "MACMaskArg"
                       [] h.Command = 3 -> "ReserveReleaseArg")
    /\ ArgRoundTrips(h.Arg)

\* C2. Header round-trip: a valid Header encodes without error, and the
\* encoded bytes decode to a Header equal to it in every field.
C2_HeaderRoundTrip ==
    (codec = "Header" /\ first = "Marshal" /\ ValidHeader(inV))
        => /\ enc.done => enc.err = Nil
           /\ dec.done =>
                 /\ dec.err = Nil
                 /\ dec.v.FlagResponse = inV.FlagResponse
                 /\ dec.v.FlagError = inV.FlagError
                 /\ dec.v.Error = inV.Error
                 /\ dec.v.Major = inV.Major
                 /\ dec.v.Minor = inV.Minor
                 /\ dec.v.Command = inV.Command
                 /\ dec.v.Tag = inV.Tag
                 /\ dec.v.Arg = inV.Arg
                 /\ dec.v = inV

\* A valid Header with both flags differing, carrying a directive list, has
\* been encoded and decoded back.
C2_Witness ==
    /\ codec = "Header" /\ first = "Marshal" /\ ValidHeader(inV)
    /\ inV.FlagResponse /\ ~inV.FlagError /\ inV.Major = 65535
    /\ inV.Arg.type = "MACMaskArg" /\ inV.Arg.DirCount = 2
    /\ dec.done /\ dec.v = inV

\* C3. ATAArg codec: encoding any ATAArg succeeds, gives 12 bytes plus the
\* data with bytes 10 and 11 zero, and decodes back to an equal ATAArg.
C3_ATAArgCodec ==
    (codec = "ATAArg" /\ first = "Marshal" /\ enc.done)
        => /\ enc.err = Nil
           /\ Len(enc.b) = 12 + Len(inV.Data)
           /\ enc.b[11] = 0 /\ enc.b[12] = 0
           /\ dec.done =>
                 /\ dec.err = Nil
                 /\ dec.v.FlagLBA48Extended = inV.FlagLBA48Extended
                 /\ dec.v.FlagATADeviceHeadRegister
                        = inV.FlagATADeviceHeadRegister
                 /\ dec.v.FlagAsynchronous = inV.FlagAsynchronous
                 /\ dec.v.FlagWrite = inV.FlagWrite
                 /\ dec.v.ErrFeature = inV.ErrFeature
                 /\ dec.v.SectorCount = inV.SectorCount
                 /\ dec.v.CmdStatus = inV.CmdStatus
                 /\ dec.v.LBA = inV.LBA
                 /\ dec.v.Data = inV.Data

\* An ATAArg with some flags set, others clear, and data has been encoded
\* and decoded back.
C3_Witness ==
    /\ codec = "ATAArg" /\ first = "Marshal"
    /\ inV.FlagAsynchronous /\ inV.FlagLBA48Extended /\ ~inV.FlagWrite
    /\ inV.CmdStatus = 255 /\ Len(inV.Data) = MaxLen
    /\ dec.done /\ dec.err = Nil /\ dec.v = inV

\* A ConfigArg that MarshalBinary is documented to accept.
ConfigArgAccepted(c) ==
    c.Command <= 15 /\ c.StringLength = Len(c.String) /\ c.StringLength <= 1024

ConfigArgRoundTrips ==
    /\ enc.done => enc.err = Nil
    /\ dec.done =>
          /\ dec.err = Nil
          /\ dec.v.BufferCount = inV.BufferCount
          /\ dec.v.FirmwareVersion = inV.FirmwareVersion
          /\ dec.v.SectorCount = inV.SectorCount
          /\ dec.v.Version = inV.Version
          /\ dec.v.Command = inV.Command
          /\ dec.v.StringLength = inV.StringLength
          /\ dec.v.String = inV.String

\* C4 as stated. ConfigArg round-trip: every ConfigArg that encode accepts
\* encodes, and decodes back to an equal value in every field, the 8-bit
\* version field included.
C4_ConfigArgRoundTrip_Original ==
    (codec = "ConfigArg" /\ first = "Marshal" /\ ConfigArgAccepted(inV))
        => ConfigArgRoundTrips

\* C4 as amended. ConfigArg round-trip: every ConfigArg that encode accepts
\* and whose version fits the 4-bit field of the wire format (version <= 15)
\* encodes, and decodes back to an equal value in every field.
C4_ConfigArgRoundTrip ==
    (codec = "ConfigArg" /\ first = "Marshal" /\ ConfigArgAccepted(inV)
     /\ inV.Version <= 15)
        => ConfigArgRoundTrips

\* A ConfigArg with version 15, command 4 and a string of the longest
\* length has been encoded and decoded back.
C4_Witness ==
    /\ codec = "ConfigArg" /\ first = "Marshal" /\ ConfigArgAccepted(inV)
    /\ inV.Version = 15 /\ inV.Command = 4 /\ inV.StringLength = 1024
    /\ dec.done /\ dec.err = Nil /\ dec.v = inV

\* Every hardware address of the list is 6 bytes long.
AllSixBytes(macs) == \A i \in 1..Len(macs) : Len(macs[i]) = 6

\* C5. MACMaskArg round-trip: a MACMaskArg with dir_count = len(directives),
\* for every dir_count in 0..255, and only 6-byte addresses encodes to
\* exactly 4 + 8 x dir_count bytes and decodes back to an equal value, the
\* directives in the same order.
C5_MACMaskArgRoundTrip ==
    (codec = "MACMaskArg" /\ first = "Marshal"
     /\ inV.DirCount = Len(inV.Directives) /\ inV.DirCount \in 0..255
     /\ \A i \in 1..Len(inV.Directives) : Len(inV.Directives[i].MAC) = 6)
        => /\ enc.done => enc.err = Nil /\ Len(enc.b) = 4 + 8 * inV.DirCount
           /\ dec.done =>
                 /\ dec.err = Nil
                 /\ dec.v.Command = inV.Command
                 /\ dec.v.Error = inV.Error
                 /\ dec.v.DirCount = inV.DirCount
                 /\ dec.v.Directives = inV.Directives

\* C6. ReserveReleaseArg round-trip: a ReserveReleaseArg with
\* n_macs = len(macs), for every n_macs in 0..255, and only 6-byte addresses
\* encodes to exactly 2 + 6 x n_macs bytes and decodes back to an equal
\* value, the addresses in the same order.
C6_ReserveReleaseArgRoundTrip ==
    (codec = "ReserveReleaseArg" /\ first = "Marshal"
     /\ inV.NMACs = Len(inV.MACs) /\ inV.NMACs \in 0..255
     /\ AllSixBytes(inV.MACs))
        => /\ enc.done => enc.err = Nil /\ Len(enc.b) = 2 + 6 * inV.NMACs
           /\ dec.done =>
                 /\ dec.err = Nil
                 /\ dec.v.Command = inV.Command
                 /\ dec.v.NMACs = inV.NMACs
                 /\ dec.v.MACs = inV.MACs

\* C7. Byte-level re-encoding: for every input that Header decode accepts,
\* encoding the decoded Header gives the input back, byte for byte (also when
\* the version nibble of the inner ConfigArg is not 1).
C7_ReencodeIdentical ==
    (codec = "Fuzz" /\ ret # "none" /\ dec.err = Nil)
        => (enc.done /\ enc.err = Nil /\ enc.b = inB)

\* MarshalBinary has returned this error and no bytes.
Refused(e) == enc.done /\ enc.err = e /\ enc.b = << >>

\* C8. Reject-invalid on encode: the documented error and no bytes for each
\* stated precondition violation. Header: version # 1 gives
\* UnsupportedVersion (before the arg is looked at), an absent arg gives
\* BadArgumentParameter, a failing arg encoder's error is returned unchanged.
\* ConfigArg: config_command > 0xF, string_length # len(string) or
\* string_length > 1024 gives BadArgumentParameter. MACMaskArg with
\* dir_count # len(directives) or a directive MAC not of 6 bytes, and
\* ReserveReleaseArg with n_macs # len(macs) or a MAC not of 6 bytes, give
\* BadArgumentParameter.
C8_EncodeRejectsInvalid ==
    (first = "Marshal" /\ enc.done) =>
        /\ codec = "Header" =>
              /\ inV.Version # 1 => Refused("ErrorUnsupportedVersion")
              /\ (inV.Version = 1 /\ inV.Arg.type = "nil")
                    => Refused("ErrorBadArgumentParameter")
              /\ (inV.Version = 1 /\ inV.Arg.type = "errArg")
                    => Refused(inV.Arg.err)
        /\ codec = "ConfigArg" =>
              ((inV.Command > 15 \/ inV.StringLength # Len(inV.String)
                \/ inV.StringLength > 1024)
                    => Refused("ErrorBadArgumentParameter"))
        /\ codec = "MACMaskArg" =>
              ((inV.DirCount # Len(inV.Directives)
                \/ \E i \in 1..Len(inV.Directives) :
                       Len(inV.Directives[i].MAC) # 6)
                    => Refused("ErrorBadArgumentParameter"))
        /\ codec = "ReserveReleaseArg" =>
              ((inV.NMACs # Len(inV.MACs) \/ ~AllSixBytes(inV.MACs))
                    => Refused("ErrorBadArgumentParameter"))

\* Fuzz has run Header.UnmarshalBinary on the input and this is its error.
Decoded(e) == dec.done /\ dec.err = e

\* The input's bytes after the first 10.
ArgBytesOf(b) == SliceFrom(b, 10)

StringLengthField(b) == b[7] * 256 + b[8]

\* C10 as stated. ConfigArg decode of an input of at least 8 bytes whose
\* string_length field exceeds 1024 fails with BadArgumentParameter,
\* whatever the number of bytes after the fixed prefix.
C10_OversizedString_Original ==
    (codec = "ConfigArg" /\ first = "Unmarshal" /\ dec.done
     /\ Len(inB) >= 8 /\ StringLengthField(inB) > 1024)
        => dec.err = "ErrorBadArgumentParameter"

\* C10 as amended. ConfigArg decode of an input of at least 8 bytes whose
\* string_length field exceeds 1024 fails with BadArgumentParameter when at
\* least string_length bytes follow the fixed prefix, and with UnexpectedEOF
\* when fewer do.
C10_OversizedString ==
    (codec = "ConfigArg" /\ first = "Unmarshal" /\ dec.done
     /\ Len(inB) >= 8 /\ StringLengthField(inB) > 1024)
        => /\ Len(inB) - 8 >= StringLengthField(inB)
                 => dec.err = "ErrorBadArgumentParameter"
           /\ Len(inB) - 8 < StringLengthField(inB)
                 => dec.err = "io.ErrUnexpectedEOF"

\* A ConfigArg whose string_length is 1025 and whose string has 1025 bytes
\* has been refused with BadArgumentParameter.
C10_Witness ==
    /\ codec = "ConfigArg" /\ first = "Unmarshal" /\ dec.done
    /\ Len(inB) = 8 + 1025 /\ StringLengthField(inB) = 1025
    /\ dec.err = "ErrorBadArgumentParameter"

\* C11. ConfigArg decode tolerates frame padding: with at least 8 bytes,
\* string_length <= 1024 and at least string_length bytes after the prefix,
\* decode succeeds, the string is exactly the first string_length bytes after
\* the prefix and the bytes after them are ignored; with fewer than 8 bytes,
\* or fewer than string_length bytes after the prefix, decode fails with
\* UnexpectedEOF.
C11_ConfigArgPadding ==
    (codec = "ConfigArg" /\ first = "Unmarshal" /\ dec.done) =>
        IF Len(inB) < 8 THEN dec.err = "io.ErrUnexpectedEOF"
        ELSE /\ Len(inB) - 8 < StringLengthField(inB)
                    => dec.err = "io.ErrUnexpectedEOF"
             /\ (StringLengthField(inB) <= 1024
                 /\ Len(inB) - 8 >= StringLengthField(inB))
                    => /\ dec.err = "nil"
                       /\ dec.v.StringLength = StringLengthField(inB)
                       /\ dec.v.String
                              = SubSeq(inB, 9, 8 + StringLengthField(inB))

\* A ConfigArg of string_length 1024 followed by one surplus byte has been
\* decoded, the string holding the first 1024 bytes after the prefix.
C11_Witness ==
    /\ codec = "ConfigArg" /\ first = "Unmarshal" /\ dec.done
    /\ Len(inB) = 8 + 1024 + 1 /\ StringLengthField(inB) = 1024
    /\ dec.err = "nil" /\ Len(dec.v.String) = 1024
    /\ dec.v.String = SubSeq(inB, 9, 8 + 1024)

\* The input is too short for a MACMaskArg, or its directives do not span
\* exactly 8 x dir_count bytes.
MACMaskSpanWrong(b) == Len(b) < 4 \/ Len(b) - 4 # 8 * b[4]

\* Byte 0 of the input, or the reserved byte of one of its dir_count
\* directives, is not zero.
MACMaskReservedSet(b) ==
    \/ Len(b) >= 1 /\ b[1] # 0
    \/ Len(b) >= 4 /\ \E i \in 1..b[4] :
           4 + 8 * (i - 1) + 1 <= Len(b) /\ b[4 + 8 * (i - 1) + 1] # 0

\* The input is too short for a ReserveReleaseArg, or its addresses do not
\* span exactly 6 x n_macs bytes.
ReserveReleaseSpanWrong(b) == Len(b) < 2 \/ Len(b) - 2 # 6 * b[2]

C13_ZeroDirectivesPadded ==
    (codec = "MACMaskArg" /\ first = "Unmarshal" /\ dec.done
     /\ Len(inB) > 4 /\ inB[1] = 0 /\ inB[4] = 0)
        => /\ dec.err = "nil"
           /\ dec.v.DirCount = 0
           /\ dec.v.Directives = << >>

\* ServeATA has returned.
Returned == pc = "done"

\* ServeATA has returned a failure of the handler: the request is not an ATA
\* request, identification is not implemented, or the backing store failed.
HandlerFailure ==
    Returned /\ Len(sent) = 0
    /\ out.err \in {"ErrInvalidATARequest", "ErrNotImplemented", "errFoo"}

\* C14 (state part). The response sender is invoked at most once; when the
\* call has returned and not with a handler-level failure, it was invoked
\* exactly once and the call returned exactly what the sender returned.
C14_AtMostOnce ==
    /\ Len(sent) <= 1
    /\ (Returned /\ ~HandlerFailure)
          => /\ Len(sent) = 1
             /\ out.n = sent[1].n
             /\ out.err = sent[1].err

\* C14 (step part). The send happens only after every operation on the
\* backing store: the step that sends makes no call on the store, and no
\* call on the store follows a send.
C14_SendAfterStore ==
    (Len(sent') > Len(sent) \/ Len(sent) > 0) => ops' = ops

\* C14. Single response: every call of the ATA handler invokes the response
\* sender at most once, exactly once when the call does not end in a
\* handler-level failure, and then returns exactly what the sender returned;
\* the send happens only after every backing-store operation of the request
\* (seek, read, write, identify) has returned.
C14_SingleResponse == []C14_AtMostOnce /\ [][C14_SendAfterStore]_vars

\* A read has sought, read, and then sent its one reply, and the handler has
\* returned the 60 bytes the sender reported.
C14_Witness ==
    /\ Returned /\ Len(ops) = 2 /\ ops[1].op = "Seek" /\ ops[2].op = "Read"
    /\ Len(sent) = 1 /\ sent[1].n = 60 /\ out = [n |-> 60, err |-> "nil"]

\* The request is an ATA request: command IssueATA with an ATAArg.
IsATARequest == req.Command = 0 /\ req.Arg.type = "ATAArg"

\* The abort reply: cmd_status 0x01, err_feature 0x04, sector count 0, no
\* flag, no data.
IsAbortArg(a) ==
    /\ a.type = "ATAArg"
    /\ a.CmdStatus = 1 /\ a.ErrFeature = 4 /\ a.SectorCount = 0
    /\ ~a.FlagLBA48Extended /\ ~a.FlagATADeviceHeadRegister
    /\ ~a.FlagAsynchronous /\ ~a.FlagWrite
    /\ a.LBA = <<0, 0, 0, 0, 0, 0>> /\ a.Data = << >>

\* The request fails one of the preconditions that are checked before any
\* call on the backing store.
PreconditionFails ==
    /\ IsATARequest
    /\ LET a == req.Arg
       IN  \/ a.CmdStatus \notin {229, 231, 236, 32, 36, 48, 52}
           \/ a.CmdStatus \in {32, 36} /\ a.FlagWrite
           \/ a.CmdStatus \in {48, 52} /\ ~a.FlagWrite
           \/ a.CmdStatus = 236 /\ a.SectorCount # 1
           \/ a.CmdStatus \in {48, 52} /\ a.FlagWrite
              /\ Len(a.Data) # a.SectorCount * 512
           \/ a.CmdStatus \in {48, 52} /\ a.FlagWrite
              /\ Len(a.Data) = a.SectorCount * 512 /\ ~rs.writer

\* The last call on the backing store was a read or a write that reported,
\* without an error, fewer bytes than it was given.
ShortTransfer ==
    /\ Len(ops) > 0
    /\ LET o == ops[Len(ops)]
       IN  o.op \in {"Read", "Write"} /\ o.err = "nil" /\ o.n < o.len

\* The abort reply is about to be sent, or was sent and the handler returned
\* what the sender returned; the reply's Header has no error and no error
\* flag.
AbortReplied ==
    \/ pc = "send" /\ IsAbortArg(warg) /\ sent = << >>
    \/ /\ pc = "done" /\ Len(sent) = 1
       /\ IsAbortArg(sent[1].h.Arg)
       /\ sent[1].h.Error = 0 /\ ~sent[1].h.FlagError
       /\ out.n = sent[1].n /\ out.err = sent[1].err
       /\ out.err # "errATAAbort"

\* C15. Abort convention: for every recoverable precondition failure (unknown
\* cmd_status, read opcode with the write flag, write opcode without it,
\* identify with sector_count # 1, write data and sector count in
\* disagreement, write without the write capability, short read, short
\* write) the handler returns no error of its own, never the abort sentinel,
\* and sends a reply with cmd_status 0x01, err_feature 0x04, sector count 0,
\* no flag and no data, the Header's error and error flag unset.
C15_AbortConvention ==
    /\ (PreconditionFails /\ pc # "call") => (AbortReplied /\ ops = << >>)
    /\ ShortTransfer => AbortReplied
    /\ out.err # "errATAAbort"

\* C16. Handler-level failures reach the caller and produce no reply: the
\* handler returns InvalidATARequest when the command is not IssueATA or the
\* arg is not an ATAArg, and returns unchanged any error of the backing
\* store's seek, read, write or identify; the returned byte count is then 0
\* and the response sender is never invoked.
C16_HandlerFailures ==
    /\ (~IsATARequest /\ pc # "call")
          => /\ pc = "done"
             /\ out = [n |-> 0, err |-> "ErrInvalidATARequest"]
             /\ sent = << >> /\ ops = << >>
    /\ (Len(ops) > 0 /\ ops[Len(ops)].err # "nil")
          => /\ pc = "done"
             /\ out = [n |-> 0, err |-> ops[Len(ops)].err]
             /\ sent = << >>

\* A write has sought, the store's Write has failed, and the handler has
\* returned that error without a reply.
C16_Witness ==
    /\ pc = "done" /\ Len(ops) = 2 /\ ops[2].op = "Write"
    /\ ops[2].err = "errFoo" /\ ops[2].n = ops[2].len /\ ops[2].len = 512
    /\ out = [n |-> 0, err |-> "errFoo"] /\ sent = << >>

\* The reply to CheckPower and Flush: sector count 0xFF, cmd_status 0x40,
\* every other field zero or empty.
IsPowerArg(a) ==
    /\ a.type = "ATAArg"
    /\ a.SectorCount = 255 /\ a.CmdStatus = 64 /\ a.ErrFeature = 0
    /\ ~a.FlagLBA48Extended /\ ~a.FlagATADeviceHeadRegister
    /\ ~a.FlagAsynchronous /\ ~a.FlagWrite
    /\ a.LBA = <<0, 0, 0, 0, 0, 0>> /\ a.Data = << >>

\* C17. CheckPower (0xE5) and Flush (0xE7) are answered identically and
\* without device I/O: whatever the request's flags, sector count, lba and
\* data, and whatever the backing store (even absent), the handler sends one
\* reply with sector_count 0xFF, cmd_status 0x40 and every other field zero
\* or empty, and makes no seek, read, write or identify.
C17_PowerAndFlush ==
    (IsATARequest /\ req.Arg.CmdStatus \in {229, 231} /\ pc # "call")
        => /\ ops = << >>
           /\ \/ pc = "send" /\ IsPowerArg(warg) /\ sent = << >>
              \/ /\ pc = "done" /\ Len(sent) = 1
                 /\ IsPowerArg(sent[1].h.Arg)
                 /\ out.n = sent[1].n /\ out.err = sent[1].err

\* A Flush with the write flag, sector count 255, a non-zero lba and data,
\* on no backing store, has been answered.
C17_Witness ==
    /\ IsATARequest /\ req.Arg.CmdStatus = 231 /\ req.Arg.FlagWrite
    /\ req.Arg.SectorCount = 255 /\ req.Arg.LBA[1] = 255
    /\ Len(req.Arg.Data) = 513 /\ ~rs.present
    /\ pc = "done" /\ Len(sent) = 1 /\ IsPowerArg(sent[1].h.Arg)

ExpectedOffset(lba, f48) ==
    CASE lba = <<0, 0, 0, 0, 0, 0>> -> <<0, 0, 0, 0, 0, 0, 0, 0>>
      [] lba = <<255, 255, 255, 255, 255, 255>> ->
             IF f48 THEN <<0, 254, 255, 255, 255, 255, 255, 1>>
             ELSE <<0, 254, 255, 255, 31, 0, 0, 0>>
      [] lba = <<1, 130, 3, 244, 5, 6>> ->
             IF f48 THEN <<0, 2, 4, 7, 232, 11, 12, 0>>
             ELSE <<0, 2, 4, 7, 8, 0, 0, 0>>

\* C19. Read: for cmd_status 0x20 or 0x24 with the write flag clear, the
\* handler seeks the backing store to the byte offset LBA x 512 (the LBA
\* masked by the LBA48 flag alone, not by the opcode), makes exactly one read
\* of sector_count x 512 bytes, and replies with cmd_status 0x40 and data of
\* exactly sector_count x 512 bytes if and only if the read returned exactly
\* that many bytes without error; a read that returns fewer bytes without
\* error gets an abort reply.
C19_Read ==
    (IsATARequest /\ req.Arg.CmdStatus \in {32, 36} /\ ~req.Arg.FlagWrite
     /\ rs.present /\ pc \notin {"call", "seek"}) =>
        LET a == req.Arg
            want == a.SectorCount * 512
            ready(w) == /\ w.type = "ATAArg" /\ w.CmdStatus = 64
                        /\ Len(w.Data) = want
        IN  /\ Len(ops) \in {1, 2}
            /\ ops[1].op = "Seek"
            /\ ops[1].offset = ExpectedOffset(a.LBA, a.FlagLBA48Extended)
            /\ Len(ops) = 1 =>
                  IF ops[1].err = "nil" THEN pc = "read" /\ sent = << >>
                  ELSE pc = "done" /\ sent = << >>
            /\ Len(ops) = 2 =>
                  /\ ops[1].err = "nil"
                  /\ ops[2].op = "Read" /\ ops[2].len = want
                  /\ pc \in {"send", "done"}
                  /\ pc = "send" =>
                        /\ ready(warg) <=> (ops[2].n = want /\ ops[2].err = "nil")
                        /\ (ops[2].n < want /\ ops[2].err = "nil")
                              => IsAbortArg(warg)
                  /\ pc = "done" =>
                        /\ (Len(sent) = 1 /\ ready(sent[1].h.Arg))
                              <=> (ops[2].n = want /\ ops[2].err = "nil")
                        /\ (ops[2].n < want /\ ops[2].err = "nil")
                              => AbortReplied

\* A 28-bit read opcode with the LBA48 flag has sought to the offset of the
\* 48-bit address, read two sectors, and replied with 1024 bytes of data.
C19_Witness ==
    /\ IsATARequest /\ req.Arg.CmdStatus = 32 /\ req.Arg.FlagLBA48Extended
    /\ req.Arg.LBA = <<255, 255, 255, 255, 255, 255>>
    /\ req.Arg.SectorCount = 2
    /\ pc = "done" /\ Len(ops) = 2
    /\ ops[1].offset = <<0, 254, 255, 255, 255, 255, 255, 1>>
    /\ ops[2].n = 1024 /\ Len(sent) = 1
    /\ sent[1].h.Arg.CmdStatus = 64 /\ Len(sent[1].h.Arg.Data) = 1024

\* C20. Sector-aligned writes: a write request (cmd_status 0x30 or 0x34 with
\* the write flag) whose data is not exactly sector_count x 512 bytes long
\* is aborted and nothing is written; hence every payload passed to the
\* backing store's write is exactly sector_count x 512 bytes, a whole number
\* of sectors.
C20_SectorAlignedWrites ==
    /\ (IsATARequest /\ req.Arg.CmdStatus \in {48, 52} /\ req.Arg.FlagWrite
        /\ Len(req.Arg.Data) # req.Arg.SectorCount * 512 /\ pc # "call")
          => (AbortReplied /\ ops = << >>)
    /\ \A i \in 1..Len(ops) :
          ops[i].op = "Write"
              => /\ Len(ops[i].p) = req.Arg.SectorCount * 512
                 /\ Len(ops[i].p) % 512 = 0

\* The low 24 bits and the next 24 bits of an integer given as its bytes,
\* least significant first.
Low24(x) == x[1] + 256 * x[2] + 65536 * x[3]

Mid24(x) == x[4] + 256 * x[5] + 65536 * x[6]

\* C21. LBA computation: for every 6-byte LBA b, the computed LBA is the
\* little-endian value b[0] + 256 b[1] + ... + 256^5 b[5] masked to its low
\* 48 bits when the LBA48 flag is set and to its low 28 bits otherwise, so it
\* lies in [0, 2^48) respectively [0, 2^28); for the all-0xFF input it is
\* 281474976710655 (16777215 * 2^24 + 16777215) respectively 268435455.
C21_LBAComputation ==
    retLBA # << >> =>
        /\ Len(retLBA) = 8
        /\ \A i \in 1..8 : retLBA[i] \in 0..255
        /\ retLBA[7] = 0 /\ retLBA[8] = 0
        /\ Low24(retLBA) = Low24(argLBA)
        /\ arg48Bit => Mid24(retLBA) = Mid24(argLBA)
        /\ ~arg48Bit =>
              /\ Mid24(retLBA) = argLBA[4] % 16
              /\ Low24(retLBA) + 16777216 * Mid24(retLBA) < 268435456
        /\ argLBA = <<255, 255, 255, 255, 255, 255>> =>
              IF arg48Bit
              THEN Low24(retLBA) = 16777215 /\ Mid24(retLBA) = 16777215
              ELSE Low24(retLBA) + 16777216 * Mid24(retLBA) = 268435455

\* The 28-bit address of an input with bits set above bit 27.
C21_Witness ==
    /\ ~arg48Bit
    /\ argLBA = <<255, 255, 255, 255, 255, 255>>
    /\ retLBA = <<255, 255, 255, 15, 0, 0, 0, 0>>

\* The request that the loop's turn has read: the bytes of its Header.
RequestBytes == loop.frame.Payload

\* C22. Response assembly: every reply the server sends for a request
\* carries version 1, response_flag set, the request's command and the
\* request's 4-byte tag unchanged, and the server's own major and minor
\* (also when the request used the wildcard 0xFFFF / 0xFF), and is addressed
\* to the hardware address the request came from; the sender does not alter
\* arg, error or error_flag.
C22_ResponseAssembly ==
    wire.by = "Send" =>
        LET b == wire.f.Payload
            h == handled.h
        IN  /\ handled.called /\ handled.send
            /\ wire.f.Destination = loop.frame.Source
            /\ Len(b) >= 10
            /\ b[1] = 16 + 8 + (IF h.FlagError THEN 4 ELSE 0)
            /\ b[2] = h.Error
            /\ 256 * b[3] + b[4] = srv.Major
            /\ b[5] = srv.Minor
            /\ b[6] = RequestBytes[6]
            /\ SubSeq(b, 7, 10) = SubSeq(RequestBytes, 7, 10)
            /\ SubSeq(b, 11, Len(b)) = MarshalArg(h.Arg).b

\* A reply to a request to the wildcard pair, by a handler that set an
\* error, a tag and a major of its own.
C22_Witness ==
    /\ wire.by = "Send"
    /\ srv.Major = 15
    /\ RequestBytes[3] = 255 /\ RequestBytes[4] = 255 /\ RequestBytes[5] = 255
    /\ SubSeq(RequestBytes, 7, 10) = <<1, 2, 3, 4>>
    /\ handled.h.Tag = <<9, 9, 9, 9>>
    /\ handled.h.Major = 7
    /\ handled.h.Error = 5
    /\ wire.f.Payload[2] = 5

\* The frame read is a well-formed request: an AoE frame whose payload
\* decodes as a Header without the response flag.
WellFormedRequest ==
    /\ loop.frame.ok
    /\ loop.frame.EtherType = 34978
    /\ UnmarshalHeader(RequestBytes).err = "nil"
    /\ RequestBytes[1] % 16 < 8

RequestMajor == 256 * RequestBytes[3] + RequestBytes[4]

RequestMinor == RequestBytes[5]

\* C23 as stated. Broadcast wildcards: a well-formed request whose major is
\* 0xFFFF or whose minor is 0xFF matches any server instance, that is, it
\* is handed to the handler whatever the server's own major and minor are
\* and whatever the request's other address field is.
C23_Wildcards_Original ==
    (/\ WellFormedRequest
     /\ srv.Handler # "nil"
     /\ RequestMajor = 65535 \/ RequestMinor = 255)
        => handled.called

\* C23, amended. A well-formed request is handed to the handler if and only
\* if its major is 0xFFFF or the server's major and its minor is 0xFF or
\* the server's minor: a wildcard stands for any server in its own field,
\* and the other field has to match as well.
C23_Wildcards ==
    (WellFormedRequest /\ srv.Handler # "nil") =>
        /\ handled.called <=>
              /\ RequestMajor = 65535 \/ RequestMajor = srv.Major
              /\ RequestMinor = 255 \/ RequestMinor = srv.Minor
        /\ handled.called =>
              /\ handled.r.Header = UnmarshalHeader(RequestBytes).v
              /\ handled.r.Source = loop.frame.Source

\* A request to every major, handed to the handler of a server whose major
\* is 15 and whose minor is the request's.
C23_Witness ==
    /\ WellFormedRequest
    /\ RequestMajor = 65535
    /\ RequestMinor = 1
    /\ srv.Major = 15 /\ srv.Minor = 1
    /\ handled.called

\* The frame read is of a kind that the server drops.
DroppedFrame ==
    /\ loop.frame.ok
    /\ \/ loop.frame.EtherType # 34978
       \/ UnmarshalHeader(RequestBytes).err # "nil"
       \/ RequestBytes[1] % 16 >= 8
       \/ RequestMajor # 65535 /\ RequestMajor # srv.Major
       \/ RequestMinor # 255 /\ RequestMinor # srv.Minor

\* C24. Silent drop: for an inbound frame whose ethertype is not 0x88A2,
\* whose payload fails Header decode, whose response_flag is set, or that is
\* addressed to another major/minor, the server invokes no handler and sends
\* no frame, and the serve loop goes on to read the next frame; no sequence
\* of such frames makes Serve return or makes the server emit a reply.
\* (Serve returns only in a turn of the loop in which no frame was read.)
C24_Dropped ==
    (loop.pc \in {"served", "ServeAoE"} /\ DroppedFrame) =>
        /\ loop.pc = "served"
        /\ ~handled.called
        /\ wire.by # "Send"
        /\ pc = "idle" /\ ops = << >>

C24_ReturnsOnError ==
    (loop'.pc = "returned" /\ loop.pc # "returned") =>
        /\ loop.pc = "ReadFrom"
        /\ ~loop.frame.ok /\ ~loop'.frame.ok

C24_SilentDrop == []C24_Dropped /\ [][C24_ReturnsOnError]_vars

\* A frame with the response flag, and a frame of another EtherType, each
\* dropped.
C24_Witness ==
    /\ loop.pc = "served"
    /\ loop.frame.ok
    /\ \/ loop.frame.EtherType = 34978 /\ RequestBytes[1] = 24
       \/ loop.frame.EtherType = 2048
    /\ ~handled.called
    /\ wire.by = "none"

\* The frame last written is an advertisement as C25 describes it: to the
\* Ethernet broadcast address, with version 1 and the response flag, the
\* server's major and minor, command QueryConfig, a zero tag and a ConfigArg
\* with config command Read.
AdvertisementAsClaimed ==
    LET b == wire.f.Payload
    IN  /\ wire.f.Destination = <<255, 255, 255, 255, 255, 255>>
        /\ Len(b) >= 18
        /\ b[1] = 24
        /\ 256 * b[3] + b[4] = srv.Major
        /\ b[5] = srv.Minor
        /\ b[6] = 1
        /\ SubSeq(b, 7, 10) = <<0, 0, 0, 0>>
        /\ b[16] = 16

\* C25. Periodic advertisement: while Serve is running the server keeps
\* advertising: it sends one advertisement at start and one after every tick
\* of the advertisement interval, each addressed to the Ethernet broadcast
\* address and carrying version 1, response_flag set, the server's
\* major/minor, command QueryConfig, a zero tag and a ConfigArg with
\* config_command = Read; advertising continues for as long as Serve has not
\* returned.  (The advertiser is at its start, about to advertise, or
\* waiting for the next tick, until Serve has returned.)
C25_PeriodicAdvertisement ==
    /\ wire.by = "advertise" => AdvertisementAsClaimed
    /\ loop.pc # "returned" => adv \in {"advertiseLoop", "advertise", "select"}

\* C26. Exclusive cursor: in the server as built, the seek and the following
\* read or write of one request are never interleaved with a seek, read or
\* write of another request on the shared backing store, and the
\* concurrently running advertiser shares only the outbound sender and never
\* touches the backing store.  (Step by step: between a request's seek and
\* its read or write the request in hand stays the same and the next call
\* on the store is that read or write; a seek is the first call of its
\* request; calls on the store are made for the request in hand only; a
\* step of the advertiser leaves the store and the request alone and writes
\* nothing but an advertisement.)
C26_OwnCursor ==
    /\ pc \in {"read", "write"} =>
          /\ req' = req
          /\ handled'.r = handled.r
          /\ ops' # ops =>
                /\ Len(ops') = Len(ops) + 1
                /\ ops'[Len(ops')].op = (IF pc = "read" THEN "Read" ELSE "Write")
    /\ (ops' # ops /\ ops' # << >>) =>
          /\ loop.pc = "ServeAoE"
          /\ handled.r.Header = req
          /\ UNCHANGED <<req, loop, adv, wire>>
          /\ ops'[Len(ops')].op = "Seek" => ops = << >>
    /\ adv' # adv =>
          /\ UNCHANGED <<ops, rs, req, handled>>
          /\ wire' # wire => wire'.by = "advertise"

IsPrefixOf(s, t) == Len(s) <= Len(t) /\ SubSeq(t, 1, Len(s)) = s

\* C30. Config query semantics: for a QueryConfig request with config command
\* Test the server responds if and only if the request's string exactly
\* matches the server's config string, and with config command TestPrefix if
\* and only if the request's string is a prefix of the server's config
\* string; every response reports the server's buffer_count,
\* firmware_version, sector_count, version 1 and config string with
\* string_length equal to its length.
C30_ConfigQuery ==
    (/\ handled.called
     /\ srv.Handler = "Handler"
     /\ handled.r.Header.Command = 1) =>
        LET a == handled.r.Header.Arg
            b == wire.f.Payload
        IN  /\ a.Command = 1 => (handled.send <=> a.String = srv.Config)
            /\ a.Command = 2 => (handled.send <=> IsPrefixOf(a.String, srv.Config))
            /\ wire.by = "Send" =>
                  /\ Len(b) = 18 + Len(srv.Config)
                  /\ 256 * b[11] + b[12] = srv.BufferCount
                  /\ 256 * b[13] + b[14] = srv.FirmwareVersion
                  /\ b[15] = srv.SectorCount
                  /\ b[16] \div 16 = 1
                  /\ 256 * b[17] + b[18] = Len(srv.Config)
                  /\ SubSeq(b, 19, Len(b)) = srv.Config

\* C27. No store access on a precondition abort: when a request is aborted on
\* a check made before I/O (unknown cmd_status, opcode/write-flag
\* disagreement, identify with sector_count != 1, write data/sector-count
\* mismatch, write opcode against a store without write capability) or is
\* rejected by the guard, the handler issues no seek, read, write or identify
\* call, so the backing store's contents and cursor position are unchanged;
\* in particular a write to a store without write capability never seeks.
C27_NoStoreAccess ==
    /\ (PreconditionFails \/ ~IsATARequest) => ops = << >>
    /\ (IsATARequest /\ req.Arg.CmdStatus \in {48, 52} /\ ~rs.writer)
          => \A i \in 1..Len(ops) : ops[i].op # "Seek"

\* The LBA of the 6 bytes under the flag, as the number of its low 24 bits
\* and the number of the bits above them: 48 bits with the LBA48 flag, 28
\* bits without it.
MaskedLow(lba) == lba[1] + 256 * lba[2] + 65536 * lba[3]

MaskedHigh(lba, f48) ==
    IF f48 THEN lba[4] + 256 * lba[5] + 65536 * lba[6] ELSE lba[4] % 16

\* off, an int64 of 8 bytes with the least significant first, is the masked
\* LBA x 512: its low byte is 0 and the bytes above it are twice the LBA.
IsLBATimes512(off, lba, f48) ==
    LET lo == 2 * MaskedLow(lba)
        hi == 2 * MaskedHigh(lba, f48) + lo \div 16777216
    IN  /\ off[1] = 0
        /\ off[2] + 256 * off[3] + 65536 * off[4] = lo % 16777216
        /\ off[5] + 256 * off[6] + 65536 * off[7] = hi % 16777216
        /\ off[8] = hi \div 16777216

\* off is at most (2^48 - 1) x 512 < 2^57 with the flag and at most
\* (2^28 - 1) x 512 < 2^37 without it; the sign bit is bit 7 of byte 8.
OffsetInRange(off, f48) ==
    /\ Len(off) = 8 /\ \A k \in 1..8 : off[k] \in 0..255
    /\ off[8] < 128
    /\ IF f48
       THEN /\ off[8] < 2
            /\ off[8] = 1 =>
                  /\ off[1] = 0 /\ off[2] <= 254
       ELSE /\ off[8] = 0 /\ off[7] = 0 /\ off[6] = 0 /\ off[5] < 32
            /\ off[5] = 31 =>
                  /\ off[1] = 0
                  /\ (off[4] = 255 /\ off[3] = 255) => off[2] <= 254

\* The offsets of every 6-byte LBA of LBAInputs, under either flag.
C29_EveryLBA ==
    \A lba \in LBAInputs, f48 \in BOOLEAN :
        LET off == ataOffset([LBA |-> lba, FlagLBA48Extended |-> f48])
        IN  IsLBATimes512(off, lba, f48) /\ OffsetInRange(off, f48)

\* C29. Byte offset range: the offset the handler passes to seek is always
\* the masked LBA x 512, is never negative and never overflows the signed
\* 64-bit range: it is at most (2^48 - 1) x 512 < 2^57 when the LBA48 flag
\* is set and at most (2^28 - 1) x 512 < 2^37 otherwise, for every 6-byte
\* LBA.
C29_OffsetRange ==
    /\ C29_EveryLBA
    /\ \A i \in 1..Len(ops) :
          ops[i].op = "Seek" =>
              /\ IsLBATimes512(ops[i].offset, req.Arg.LBA,
                               req.Arg.FlagLBA48Extended)
              /\ OffsetInRange(ops[i].offset, req.Arg.FlagLBA48Extended)

\* A write to the highest address has sought to (2^48 - 1) x 512 under the
\* LBA48 flag; the same address without the flag gives (2^28 - 1) x 512.
C29_Witness ==
    /\ IsATARequest /\ req.Arg.CmdStatus = 52 /\ req.Arg.FlagWrite
    /\ req.Arg.FlagLBA48Extended
    /\ req.Arg.LBA = <<255, 255, 255, 255, 255, 255>>
    /\ Len(ops) >= 1 /\ ops[1].op = "Seek"
    /\ ops[1].offset = <<0, 254, 255, 255, 255, 255, 255, 1>>
    /\ ataOffset([LBA |-> req.Arg.LBA, FlagLBA48Extended |-> FALSE])
          = <<0, 254, 255, 255, 31, 0, 0, 0>>

\* The request in hand is a read of the sectors of the write that log keeps:
\* the same LBA bytes, LBA48 flag and sector count.
ReadsBack ==
    /\ log # << >>
    /\ IsATARequest
    /\ req.Arg.CmdStatus \in {32, 36} /\ ~req.Arg.FlagWrite
    /\ req.Arg.LBA = log[1].LBA
    /\ req.Arg.FlagLBA48Extended = log[1].FlagLBA48Extended
    /\ req.Arg.SectorCount = log[1].SectorCount

\* C28. Write-then-read consistency: against a backing store that faithfully
\* implements seek, read and write over a byte array, after a write request
\* with LBA bytes L, LBA48 flag f, sector_count n and data D of exactly
\* n x 512 bytes that is answered with cmd_status = 0x40, a later read
\* request with the same L, f and n (no overlapping write in between,
\* whatever other requests ran and wherever they left the cursor) is
\* answered with cmd_status = 0x40 and data equal to D.
C28_WriteThenRead ==
    (ReadsBack /\ pc = "done") =>
        /\ Len(sent) = 1
        /\ sent[1].h.Arg.type = "ATAArg"
        /\ sent[1].h.Arg.CmdStatus = 64
        /\ sent[1].h.Arg.Data = log[1].Data

====
